---------------------------- MODULE Spec2Model ----------------------------
(***************************************************************************)
(* Invoice engine of the invoice-generator backend: invoice numbering      *)
(* (utils/invoiceUtils.ts generateInvoiceNumber), totals computation       *)
(* (calculateInvoiceTotals and the Invoice schema's pre-save hook), the     *)
(* status rules of the second pre-save hook, and the create / update /      *)
(* duplicate / delete handlers of controllers/invoiceController.ts over a   *)
(* MongoDB collection with its unique indexes.                              *)
(*                                                                         *)
(* Modelling conventions                                                    *)
(*  - a JavaScript string is a sequence of one-character strings, so that   *)
(*    padStart, split, parseInt, the ^prefix regex and the string sort of   *)
(*    MongoDB are computed character by character;                          *)
(*  - a JavaScript number that carries money, a quantity or a rate is an    *)
(*    exact rational <<n, d>> in lowest terms (d > 0); IEEE-754             *)
(*    representation error is not modelled;                                 *)
(*  - a Date is a natural number of instants since the clock's epoch;       *)
(*    a null / undefined Date is NoDate and the number NaN is NaN.          *)
(***************************************************************************)
EXTENDS Integers, Sequences, FiniteSets, Bags, TLC

(***************************************************************************)
(* Bounds of the model.                                                    *)
(***************************************************************************)
\* last instant of the clock (instants 0..MaxNow, one per calendar month)
MaxNow == 1
\* ObjectIds drawn for new invoices in one behaviour with concurrent requests
MaxInvoices == 2
\* HTTP requests in flight at one time
NumProcs == 2
\* ObjectIds drawn for new invoices in one behaviour with one request at a time
MaxSeqInvoices == 3

(***************************************************************************)
(* Strings.                                                                *)
(***************************************************************************)
\* the number NaN (every number parsed from a string of the model is >= 0)
NaN == -1
\* a Date field holding null / undefined (every Date of the model is >= 0)
NoDate == -1
\* String(undefined), which is what parseInt makes of a missing array element
UndefinedStr == <<"u", "n", "d", "e", "f", "i", "n", "e", "d">>

DigitChars == <<"0", "1", "2", "3", "4", "5", "6", "7", "8", "9">>

IsDigit(c) == \E i \in 1..10 : DigitChars[i] = c

DigitValue(c) == (CHOOSE i \in 1..10 : DigitChars[i] = c) - 1

\* UTF-16 code unit of the characters that occur in invoice numbers
CharCode(c) ==
  CASE c = "-" -> 45
    [] IsDigit(c) -> 48 + DigitValue(c)
    [] c = "I" -> 73
    [] c = "N" -> 78
    [] c = "V" -> 86
    [] c = "a" -> 97
    [] OTHER -> 120

\* String(n) for an integer n >= 0
RECURSIVE NumToStr(_)
NumToStr(n) ==
  IF n < 10 THEN <<DigitChars[n + 1]>>
  ELSE NumToStr(n \div 10) \o <<DigitChars[(n % 10) + 1]>>

\* String(x) for x an integer >= 0 or NaN
ToStr(x) == IF x = NaN THEN <<"N", "a", "N">> ELSE NumToStr(x)

\* s.padStart(len, c)
RECURSIVE PadStart(_, _, _)
PadStart(s, len, c) ==
  IF Len(s) >= len THEN s ELSE PadStart(<<c>> \o s, len, c)

\* s.split(sep): the segments of s between the occurrences of sep
RECURSIVE Split(_, _)
Split(s, sep) ==
  IF \A i \in 1..Len(s) : s[i] # sep THEN <<s>>
  ELSE LET k == CHOOSE i \in 1..Len(s) :
                   s[i] = sep /\ \A j \in 1..(i - 1) : s[j] # sep
       IN <<SubSeq(s, 1, k - 1)>> \o Split(SubSeq(s, k + 1, Len(s)), sep)

\* value of a sequence of decimal digits
RECURSIVE DigitsValue(_)
DigitsValue(s) ==
  IF Len(s) = 0 THEN 0
  ELSE 10 * DigitsValue(SubSeq(s, 1, Len(s) - 1)) + DigitValue(s[Len(s)])

\* parseInt(s): the longest prefix of decimal digits, NaN when there is none
\* (the characters of the model hold no sign, blank or radix prefix)
ParseInt(s) ==
  LET n == IF \A i \in 1..Len(s) : IsDigit(s[i]) THEN Len(s)
           ELSE (CHOOSE i \in 1..Len(s) :
                   ~IsDigit(s[i]) /\ \A j \in 1..(i - 1) : IsDigit(s[j])) - 1
  IN IF n = 0 THEN NaN ELSE DigitsValue(SubSeq(s, 1, n))

\* the regex ^prefix matches s
StartsWith(s, prefix) ==
  Len(s) >= Len(prefix) /\ SubSeq(s, 1, Len(prefix)) = prefix

\* a < b in MongoDB's binary string order
RECURSIVE StrLess(_, _)
StrLess(a, b) ==
  IF Len(b) = 0 THEN FALSE
  ELSE IF Len(a) = 0 THEN TRUE
  ELSE IF a[1] # b[1] THEN CharCode(a[1]) < CharCode(b[1])
  ELSE StrLess(Tail(a), Tail(b))

\* arr[i] of a JavaScript array with 0-based index i: undefined past the end
At(arr, i) == IF i + 1 <= Len(arr) THEN arr[i + 1] ELSE UndefinedStr

(***************************************************************************)
(* Numbers: exact rationals <<n, d>> in lowest terms.                      *)
(***************************************************************************)
RECURSIVE Gcd(_, _)
Gcd(a, b) == IF b = 0 THEN a ELSE Gcd(b, a % b)

Abs(x) == IF x < 0 THEN -x ELSE x

Rat(n, d) ==
  LET g == Gcd(Abs(n), d) IN IF n = 0 THEN <<0, 1>> ELSE <<n \div g, d \div g>>

RInt(n) == <<n, 1>>

\* a + b and a - b over the least common denominator
RAdd(a, b) ==
  LET g == Gcd(a[2], b[2])
  IN Rat(a[1] * (b[2] \div g) + b[1] * (a[2] \div g), (a[2] \div g) * b[2])

RSub(a, b) ==
  LET g == Gcd(a[2], b[2])
  IN Rat(a[1] * (b[2] \div g) - b[1] * (a[2] \div g), (a[2] \div g) * b[2])

\* (n1 * n2) / (d1 * d2)
RProduct(n1, n2, d1, d2) == Rat(n1 * n2, d1 * d2)

\* a * b, the common factors cancelled before the products are taken
RMul(a, b) ==
  RProduct(a[1] \div Gcd(Abs(a[1]), b[2]), b[1] \div Gcd(Abs(b[1]), a[2]),
           a[2] \div Gcd(Abs(b[1]), a[2]), b[2] \div Gcd(Abs(a[1]), b[2]))

\* a / k for an integer k > 0
RDivInt(a, k) == RMul(a, <<1, k>>)

RLess(a, b) == a[1] * b[2] < b[1] * a[2]
RLeq(a, b) == a[1] * b[2] <= b[1] * a[2]

\* floor(n / d) for d > 0 (\div of TLA+ rounds toward minus infinity)
Floor(r) == r[1] \div r[2]

\* Math.round(x): the integer nearest to x, a tie going up
MathRound(r) == Floor(RAdd(r, <<1, 2>>))

\* Math.round(x * 100) / 100
Round2(r) == Rat(MathRound(RMul(r, RInt(100))), 100)

(***************************************************************************)
(* The clock: new Date().                                                  *)
(***************************************************************************)
Clock == [epochYear |-> 2025, epochMonth |-> 12, instantsPerMonth |-> 1]

MonthIndex(t) == (Clock.epochMonth - 1) + (t \div Clock.instantsPerMonth)

\* new Date().getFullYear()
GetFullYear(t) == Clock.epochYear + (MonthIndex(t) \div 12)

\* new Date().getMonth(), 0-based
GetMonth(t) == MonthIndex(t) % 12

(***************************************************************************)
(* utils/invoiceUtils.ts                                                   *)
(***************************************************************************)
\* `INV-${year}-${month}` with month = String(getMonth() + 1).padStart(2, '0')
InvoicePrefix(t) ==
  <<"I", "N", "V", "-">> \o ToStr(GetFullYear(t)) \o <<"-">>
    \o PadStart(ToStr(GetMonth(t) + 1), 2, "0")

\* a query without the $regex filter: every invoice of the user, of any month
MatchingAnyMonth(invs, userId, prefix) == {d \in invs : d.userId = userId}

\* Invoice.find({userId, invoiceNumber: {$regex: `^${prefix}`}})
MatchingInvoices(invs, userId, prefix) ==
  {d \in invs : d.userId = userId /\ StartsWith(d.invoiceNumber, prefix)}

\* .sort({invoiceNumber: -1}) and the first document of the result
FirstDescending(docs) ==
  CHOOSE d \in docs : \A e \in docs : ~StrLess(d.invoiceNumber, e.invoiceNumber)

\* lastSequence + 1 on JavaScript numbers
JsInc(x) == IF x = NaN THEN NaN ELSE x + 1

\* a generator that counts from 0: `let sequence = 0`
NextSequenceFromZero(docs) ==
  IF docs = {} THEN 0
  ELSE JsInc(ParseInt(At(Split(FirstDescending(docs).invoiceNumber, "-"), 3)))

\* sequence = 1, or parseInt(latest.invoiceNumber.split('-')[3]) + 1
NextSequence(docs) ==
  IF docs = {} THEN 1
  ELSE JsInc(ParseInt(At(Split(FirstDescending(docs).invoiceNumber, "-"), 3)))

\* generateInvoiceNumber(userId) run at instant t over the collection invs
GenerateInvoiceNumber(invs, userId, t) ==
  LET prefix == InvoicePrefix(t)
      sequence == NextSequence(MatchingInvoices(invs, userId, prefix))
  IN prefix \o <<"-">> \o PadStart(ToStr(sequence), 4, "0")

\* items.reduce((sum, item) => sum + item.quantity * item.rate, 0)
RECURSIVE SumAmounts(_)
SumAmounts(items) ==
  IF Len(items) = 0 THEN RInt(0)
  ELSE RAdd(SumAmounts(SubSeq(items, 1, Len(items) - 1)),
            RMul(items[Len(items)].quantity, items[Len(items)].rate))

\* totals whose total is taken from the rounded parts instead of the raw values
TotalsFromRoundedParts(items, taxRate, discountRate) ==
  LET subtotal == Round2(SumAmounts(items))
      taxAmount == Round2(RDivInt(RMul(subtotal, taxRate), 100))
      discountAmount == Round2(RDivInt(RMul(subtotal, discountRate), 100))
  IN [subtotal |-> subtotal,
      taxAmount |-> taxAmount,
      discountAmount |-> discountAmount,
      total |-> Round2(RSub(RAdd(subtotal, taxAmount), discountAmount))]

\* calculateInvoiceTotals(items, taxRate, discountRate)
CalculateInvoiceTotals(items, taxRate, discountRate) ==
  LET subtotal == SumAmounts(items)
      taxAmount == RDivInt(RMul(subtotal, taxRate), 100)
      discountAmount == RDivInt(RMul(subtotal, discountRate), 100)
      total == RSub(RAdd(subtotal, taxAmount), discountAmount)
  IN [subtotal |-> Round2(subtotal),
      taxAmount |-> Round2(taxAmount),
      discountAmount |-> Round2(discountAmount),
      total |-> Round2(total)]

(***************************************************************************)
(* models/Invoice.ts: the two pre('save') hooks.                           *)
(***************************************************************************)
\* items stored with the amounts they came with
AmountsAsSent(items) == items

\* items.map(item => ({...item, amount: item.quantity * item.rate}))
WithAmounts(items) ==
  [i \in 1..Len(items) |->
     [items[i] EXCEPT !.amount = RMul(items[i].quantity, items[i].rate)]]

\* a first hook that sets the amounts and leaves the totals as assigned
TotalsAsAssigned(doc) == [doc EXCEPT !.items = WithAmounts(doc.items)]

\* first hook: amounts, subtotal, taxAmount, discountAmount and total
PreSaveTotals(doc) ==
  LET subtotal == SumAmounts(doc.items)
      taxAmount == RDivInt(RMul(subtotal, doc.taxRate), 100)
      discountAmount == RDivInt(RMul(subtotal, doc.discountRate), 100)
  IN [doc EXCEPT !.items = WithAmounts(doc.items),
                 !.subtotal = subtotal,
                 !.taxAmount = taxAmount,
                 !.discountAmount = discountAmount,
                 !.total = RSub(RAdd(subtotal, taxAmount), discountAmount)]

\* status rules with the overdue rule ahead of the paid rule and blind to
\* paidDate
OverdueBeforePaid(doc, t) ==
  IF doc.dueDate < t /\ doc.status = "sent"
    THEN [doc EXCEPT !.status = "overdue"]
  ELSE IF doc.paidDate # NoDate /\ doc.status # "paid"
    THEN [doc EXCEPT !.status = "paid"]
  ELSE IF doc.paidDate = NoDate /\ doc.status = "paid"
    THEN [doc EXCEPT !.paidDate = NoDate]
  ELSE doc

\* status rules whose overdue rule fires from every status
OverdueFromAnyStatus(doc, t) ==
  IF doc.paidDate # NoDate /\ doc.status # "paid"
    THEN [doc EXCEPT !.status = "paid"]
  ELSE IF doc.paidDate = NoDate /\ doc.status = "paid"
    THEN [doc EXCEPT !.paidDate = NoDate]
  ELSE IF doc.dueDate < t /\ doc.paidDate = NoDate
    THEN [doc EXCEPT !.status = "overdue"]
  ELSE doc

\* status rules whose overdue rule also fires at the instant the invoice is due
OverdueWhenDue(doc, t) ==
  IF doc.paidDate # NoDate /\ doc.status # "paid"
    THEN [doc EXCEPT !.status = "paid"]
  ELSE IF doc.paidDate = NoDate /\ doc.status = "paid"
    THEN [doc EXCEPT !.paidDate = NoDate]
  ELSE IF doc.dueDate <= t /\ doc.status = "sent" /\ doc.paidDate = NoDate
    THEN [doc EXCEPT !.status = "overdue"]
  ELSE doc

\* second hook: status from paidDate and dueDate, run at instant t
PreSaveStatus(doc, t) ==
  IF doc.paidDate # NoDate /\ doc.status # "paid"
    THEN [doc EXCEPT !.status = "paid"]
  ELSE IF doc.paidDate = NoDate /\ doc.status = "paid"
    THEN [doc EXCEPT !.paidDate = NoDate]
  ELSE IF doc.dueDate < t /\ doc.status = "sent" /\ doc.paidDate = NoDate
    THEN [doc EXCEPT !.status = "overdue"]
  ELSE doc

\* the hooks of doc.save() in the order the schema registers them
PreSave(doc, t) == PreSaveStatus(PreSaveTotals(doc), t)

(***************************************************************************)
(* State.                                                                  *)
(***************************************************************************)
VARIABLES
  now,        \* the clock: what new Date() returns
  invoices,   \* the Invoice collection: a set of documents
  users,      \* the User collection: userId -> [plan, invoiceCount, maxInvoices]
  customers,  \* the Customer collection: a set of [_id, userId]
  nextId,     \* the next ObjectId new Invoice() draws
  procs,      \* the HTTP requests in flight: a bag of request states
  issued,     \* history: userId -> the invoice numbers inserted, in order
  probe       \* a function applied on its own: [op, in, out]

vars == <<now, invoices, users, customers, nextId, procs, issued, probe>>

Users == {"u1", "u2"}
Statuses == {"draft", "sent", "paid", "overdue", "cancelled"}

\* an absent (undefined) field of a request body; a dueDate that is no
\* ISO 8601 date
NoNumber == <<0, 0>>
NoString == "undefined"
InvalidDate == -2

Item(q, r) == [quantity |-> q, rate |-> r, amount |-> RInt(0)]

\* absent items, which an empty array is not
NoItems == <<Item(NoNumber, NoNumber)>>

\* a document before its fields are assigned
BlankDoc ==
  [_id |-> 0, userId |-> NoString, customerId |-> NoString, invoiceNumber |-> <<>>,
   status |-> "draft", items |-> <<>>, subtotal |-> RInt(0), taxRate |-> RInt(0),
   taxAmount |-> RInt(0), discountRate |-> RInt(0), discountAmount |-> RInt(0),
   total |-> RInt(0), issueDate |-> NoDate, dueDate |-> NoDate, paidDate |-> NoDate,
   currency |-> "USD", notes |-> NoString, terms |-> NoString]

\* a request in flight: where it stands (pc), its handler (kind), the
\* authenticated user and the document it holds in memory
Request(pc, kind, user, doc) == [pc |-> pc, kind |-> kind, user |-> user, doc |-> doc]

\* the request bodies of POST /invoices the model draws from
CreateBodies ==
  { [items |-> <<Item(RInt(1), <<1001, 100>>)>>,
     taxRate |-> <<33, 4>>, discountRate |-> NoNumber, dueDate |-> 0] }

\* the request bodies of PUT /invoices/:id the model draws from
UpdateBodies ==
  { [customerId |-> NoString, items |-> <<Item(RInt(3), <<33, 100>>)>>,
     taxRate |-> <<1, 2>>, discountRate |-> NoNumber, dueDate |-> NoDate,
     status |-> "sent", currency |-> NoString, notes |-> NoString,
     terms |-> NoString] }

\* value = default in a destructuring of req.body
OrDefault(x, dflt) == IF x = NoNumber THEN dflt ELSE x

\* a || b on numbers: b when a is undefined or 0
OrElse(a, b) == IF a = NoNumber \/ a[1] = 0 THEN b ELSE a

(***************************************************************************)
(* The collections.                                                        *)
(***************************************************************************)
\* Mongoose's validation of a document against invoiceSchema, run by save()
\* before the pre('save') hooks of the schema
SchemaValid(doc) ==
  /\ doc.status \in Statuses
  /\ Len(doc.invoiceNumber) > 0
  /\ Len(doc.items) > 0
  /\ \A i \in 1..Len(doc.items) :
        /\ RLeq(<<1, 100>>, doc.items[i].quantity)
        /\ RLeq(RInt(0), doc.items[i].rate)
        /\ RLeq(RInt(0), doc.items[i].amount)
  /\ RLeq(RInt(0), doc.subtotal) /\ RLeq(RInt(0), doc.total)
  /\ RLeq(RInt(0), doc.taxAmount) /\ RLeq(RInt(0), doc.discountAmount)
  /\ RLeq(RInt(0), doc.taxRate) /\ RLeq(doc.taxRate, RInt(100))
  /\ RLeq(RInt(0), doc.discountRate) /\ RLeq(doc.discountRate, RInt(100))
  /\ doc.dueDate # NoDate /\ doc.issueDate # NoDate

\* the unique index the field option `unique: true` of invoiceNumber creates
NumberIndexViolation(invs, doc) ==
  \E d \in invs : d._id # doc._id /\ d.invoiceNumber = doc.invoiceNumber

\* the unique compound index {userId: 1, invoiceNumber: 1}
UserNumberIndexViolation(invs, doc) ==
  \E d \in invs : d._id # doc._id /\ d.userId = doc.userId
                                  /\ d.invoiceNumber = doc.invoiceNumber

\* a collection without unique indexes: no insert is rejected
NoUniqueIndex(invs, doc) == FALSE

\* E11000: the insert of doc is rejected by a unique index
DuplicateKey(invs, doc) ==
  NumberIndexViolation(invs, doc) \/ UserNumberIndexViolation(invs, doc)

\* a lookup by _id alone
FindInvoiceOfAnyUser(invs, id, userId) == {d \in invs : d._id = id}

\* Invoice.findOne({_id: id, userId})
FindInvoice(invs, id, userId) == {d \in invs : d._id = id /\ d.userId = userId}

\* a customer lookup by _id alone
FindCustomerOfAnyUser(custs, customerId, userId) ==
  {c \in custs : c._id = customerId}

\* Customer.findOne({_id: customerId, userId})
FindCustomer(custs, customerId, userId) ==
  {c \in custs : c._id = customerId /\ c.userId = userId}

(***************************************************************************)
(* middleware/auth.ts and routes/invoices.ts                               *)
(***************************************************************************)
\* a limit check without the exemption of the paid plans
LimitOnEveryPlan(user) == user.invoiceCount >= user.maxInvoices

\* checkInvoiceLimit on the user document authenticate loaded: TRUE = 403
InvoiceLimitReached(user) ==
  IF user.plan = "pro" \/ user.plan = "business" THEN FALSE
  ELSE user.invoiceCount >= user.maxInvoices

\* a validation of items that checks only that there is one
AnyItems(items) == Len(items) >= 1

ValidItems(items) ==
  /\ Len(items) >= 1
  /\ \A i \in 1..Len(items) :
        RLess(RInt(0), items[i].quantity) /\ RLeq(RInt(0), items[i].rate)

\* isISO8601 on a dueDate that is given
ValidDate(d) == d \in Nat

ValidRate(x) == x = NoNumber \/ (RLeq(RInt(0), x) /\ RLeq(x, RInt(100)))

\* invoiceValidation: no validation error for the body of a POST
ValidCreateBody(b) ==
  /\ ValidItems(b.items)
  /\ ValidDate(b.dueDate)
  /\ ValidRate(b.taxRate) /\ ValidRate(b.discountRate)

\* invoiceUpdateValidation: no validation error for the body of a PUT
ValidUpdateBody(b) ==
  /\ b.items = NoItems \/ ValidItems(b.items)
  /\ b.dueDate = NoDate \/ ValidDate(b.dueDate)
  /\ ValidRate(b.taxRate) /\ ValidRate(b.discountRate)
  /\ b.status = NoString \/ b.status \in Statuses

(***************************************************************************)
(* controllers/invoiceController.ts                                        *)
(***************************************************************************)
InFlight == BagToSet(procs)

\* a request starts, moves on, ends (the response is sent)
Started(r) == procs (+) SetToBag({r})
Moved(r, r2) == (procs (-) SetToBag({r})) (+) SetToBag({r2})
Finished(r) == procs (-) SetToBag({r})

\* the limits of a specification: requests in flight and ObjectIds drawn, and
\* whether the requests and their responses are recorded in probe
Concurrent == [procs |-> NumProcs, ids |-> MaxInvoices, trace |-> FALSE]
Sequential == [procs |-> 1, ids |-> MaxSeqInvoices, trace |-> FALSE]

\* a function is called (op "call", the arguments in `in`) and returns
\* (op "return", the result in `out`)
Call(fn, in) == [fn |-> fn, op |-> "call", in |-> in, out |-> <<>>]
Return(fn, in, out) == [fn |-> fn, op |-> "return", in |-> in, out |-> out]

\* an HTTP request as the handlers see it: req.user, req.params.id, and
\* req.body with its customerId
HttpRequest(u, id, customerId, b) ==
  [user |-> u, id |-> id, customerId |-> customerId, body |-> b]

\* res.status(code).json(...)
Response(code) == [status |-> code]

\* a handler is entered with request in; the handler fn answers request in
\* with out
Receive(lim, fn, in) == probe' = IF lim.trace THEN Call(fn, in) ELSE probe
Respond(lim, fn, in, out) == probe' = IF lim.trace THEN Return(fn, in, out) ELSE probe

\* the model holds at most lim.procs requests in flight; where requests and
\* responses are recorded, the client sends a request once the response to
\* its last one has been delivered
RoomFor(lim) ==
  /\ BagCardinality(procs) < lim.procs
  /\ lim.trace => probe.op # "return"

\* requests that will still draw an ObjectId
PendingIds ==
  BagCardinality([r \in {q \in InFlight : q.pc = "generate"} |-> CopiesIn(r, procs)])

\* the model stops drawing ObjectIds after lim.ids of them
IdsLeft(lim) == nextId + PendingIds <= lim.ids

\* new Invoice({...}) of createInvoice, with the schema defaults
NewInvoice(id, userId, customerId, invoiceNumber, b, totals, t) ==
  [BlankDoc EXCEPT !._id = id, !.userId = userId, !.customerId = customerId,
                   !.invoiceNumber = invoiceNumber,
                   !.items = WithAmounts(b.items),
                   !.subtotal = totals.subtotal,
                   !.taxRate = OrDefault(b.taxRate, RInt(0)),
                   !.taxAmount = totals.taxAmount,
                   !.discountRate = OrDefault(b.discountRate, RInt(0)),
                   !.discountAmount = totals.discountAmount,
                   !.total = totals.total,
                   !.issueDate = t, !.dueDate = b.dueDate]

\* createInvoice up to generateInvoiceNumber: authenticate, checkInvoiceLimit,
\* the validation result, the customer lookup and calculateInvoiceTotals
CreateBegin(lim, u, customerId, b) ==
  /\ RoomFor(lim)
  /\ IdsLeft(lim)
  /\ LET taxRate == OrDefault(b.taxRate, RInt(0))
         discountRate == OrDefault(b.discountRate, RInt(0))
         totals == CalculateInvoiceTotals(b.items, taxRate, discountRate)
         in == HttpRequest(u, 0, customerId, b)
     IN IF InvoiceLimitReached(users[u])
          THEN UNCHANGED procs /\ Respond(lim, "createInvoice", in, Response(403))
        ELSE IF ~ValidCreateBody(b)
          THEN UNCHANGED procs /\ Respond(lim, "createInvoice", in, Response(400))
        ELSE IF FindCustomer(customers, customerId, u) = {}
          THEN UNCHANGED procs /\ Respond(lim, "createInvoice", in, Response(404))
        ELSE /\ procs' = Started(Request("generate", "create", u,
                                         NewInvoice(0, u, customerId, <<>>, b, totals,
                                                    NoDate)))
             /\ Receive(lim, "createInvoice", in)
  /\ UNCHANGED <<now, invoices, users, customers, nextId, issued>>

\* duplicateInvoice up to generateInvoiceNumber: authenticate,
\* checkInvoiceLimit and the lookup of the original
DuplicateBegin(lim, u, id) ==
  /\ RoomFor(lim)
  /\ IdsLeft(lim)
  /\ LET found == FindInvoice(invoices, id, u)
         in == HttpRequest(u, id, NoString, <<>>)
     IN IF InvoiceLimitReached(users[u])
          THEN UNCHANGED procs /\ Respond(lim, "duplicateInvoice", in, Response(403))
        ELSE IF found = {}
          THEN UNCHANGED procs /\ Respond(lim, "duplicateInvoice", in, Response(404))
        ELSE /\ procs' = Started(Request("generate", "duplicate", u,
                                         CHOOSE d \in found : TRUE))
             /\ Receive(lim, "duplicateInvoice", in)
  /\ UNCHANGED <<now, invoices, users, customers, nextId, issued>>

\* a duplicate that keeps the status and the paidDate of the original
NumberedAsOriginal(r, id, number, t) ==
  IF r.kind = "create"
    THEN [r.doc EXCEPT !._id = id, !.invoiceNumber = number, !.issueDate = t]
  ELSE [r.doc EXCEPT !._id = id, !.invoiceNumber = number]

\* the document of new Invoice({...}) once the number is known: for a
\* duplicate the copy of the original with the new number, status draft and no
\* paidDate
Numbered(r, id, number, t) ==
  IF r.kind = "create"
    THEN [r.doc EXCEPT !._id = id, !.invoiceNumber = number, !.issueDate = t]
  ELSE [r.doc EXCEPT !._id = id, !.invoiceNumber = number,
                     !.status = "draft", !.paidDate = NoDate]

\* await generateInvoiceNumber(userId), then new Invoice({...})
Generate(r) ==
  /\ r.pc = "generate"
  /\ procs' = Moved(r, [r EXCEPT
                          !.pc = "save",
                          !.doc = Numbered(r, nextId,
                                           GenerateInvoiceNumber(invoices, r.user, now),
                                           now)])
  /\ nextId' = nextId + 1
  /\ UNCHANGED <<now, invoices, users, customers, issued, probe>>

\* await invoice.save() of a new document: validation, the pre-save hooks,
\* the insert; an error ends the request in the catch block with 500
SaveNew(lim, r) ==
  /\ r.pc = "save"
  /\ LET stored == PreSave(r.doc, now)
     IN IF ~SchemaValid(r.doc) \/ DuplicateKey(invoices, stored)
          THEN /\ procs' = Finished(r)
               /\ Respond(lim, probe.fn, probe.in, Response(500))
               /\ UNCHANGED <<invoices, issued>>
        ELSE /\ invoices' = invoices \cup {stored}
             /\ issued' = [issued EXCEPT
                             ![r.user] = Append(@, stored.invoiceNumber)]
             /\ procs' = Moved(r, [r EXCEPT !.pc = "inc", !.doc = BlankDoc])
             /\ UNCHANGED probe
  /\ UNCHANGED <<now, users, customers, nextId>>

\* await User.findByIdAndUpdate(userId, {$inc: {invoiceCount: 1}}), then 201
IncCount(lim, r) ==
  /\ r.pc = "inc"
  /\ users' = [users EXCEPT ![r.user].invoiceCount = @ + 1]
  /\ procs' = Finished(r)
  /\ Respond(lim, probe.fn, probe.in, Response(201))
  /\ UNCHANGED <<now, invoices, customers, nextId, issued>>

\* a deleteInvoice that goes on to the counter update whether or not
\* findOneAndDelete found the invoice
DeleteThenCountAnyway(lim, u, id) ==
  /\ RoomFor(lim)
  /\ invoices' = invoices \ FindInvoice(invoices, id, u)
  /\ procs' = Started(Request("dec", "delete", u, BlankDoc))
  /\ Receive(lim, "deleteInvoice", HttpRequest(u, id, NoString, <<>>))
  /\ UNCHANGED <<now, users, customers, nextId, issued>>

\* deleteInvoice up to the counter update: authenticate and findOneAndDelete
DeleteBegin(lim, u, id) ==
  /\ RoomFor(lim)
  /\ LET found == FindInvoice(invoices, id, u)
         in == HttpRequest(u, id, NoString, <<>>)
     IN IF found = {}
          THEN /\ UNCHANGED <<procs, invoices>>
               /\ Respond(lim, "deleteInvoice", in, Response(404))
        ELSE /\ invoices' = invoices \ found
             /\ procs' = Started(Request("dec", "delete", u, BlankDoc))
             /\ Receive(lim, "deleteInvoice", in)
  /\ UNCHANGED <<now, users, customers, nextId, issued>>

\* await User.findByIdAndUpdate(userId, {$inc: {invoiceCount: -1}}), then 200
DecCount(lim, r) ==
  /\ r.pc = "dec"
  /\ users' = [users EXCEPT ![r.user].invoiceCount = @ - 1]
  /\ procs' = Finished(r)
  /\ Respond(lim, probe.fn, probe.in, Response(200))
  /\ UNCHANGED <<now, invoices, customers, nextId, issued>>

\* the assignments of updateInvoice with a status that leaves paidDate alone
\* unless it stamps it
StatusWithoutPaidDate(doc, b, t) ==
  LET totals == CalculateInvoiceTotals(b.items, OrElse(b.taxRate, doc.taxRate),
                                       OrElse(b.discountRate, doc.discountRate))
  IN [doc EXCEPT
        !.customerId = IF b.customerId # NoString THEN b.customerId ELSE @,
        !.items = IF b.items # NoItems THEN WithAmounts(b.items) ELSE @,
        !.subtotal = IF b.items # NoItems THEN totals.subtotal ELSE @,
        !.taxAmount = IF b.items # NoItems THEN totals.taxAmount ELSE @,
        !.discountAmount = IF b.items # NoItems THEN totals.discountAmount ELSE @,
        !.total = IF b.items # NoItems THEN totals.total ELSE @,
        !.dueDate = IF b.dueDate # NoDate THEN b.dueDate ELSE @,
        !.taxRate = IF b.taxRate # NoNumber THEN b.taxRate ELSE @,
        !.discountRate = IF b.discountRate # NoNumber THEN b.discountRate ELSE @,
        !.status = IF b.status # NoString THEN b.status ELSE @,
        !.paidDate = IF b.status = "paid" /\ @ = NoDate THEN t ELSE @]

\* the assignments of updateInvoice with a status that never stamps a paidDate
StatusWithoutStamp(doc, b, t) ==
  [doc EXCEPT
     !.customerId = IF b.customerId # NoString THEN b.customerId ELSE @,
     !.dueDate = IF b.dueDate # NoDate THEN b.dueDate ELSE @,
     !.status = IF b.status # NoString THEN b.status ELSE @,
     !.paidDate = IF b.status = NoString \/ b.status = "paid" THEN @ ELSE NoDate]

\* the assignments of updateInvoice when it writes every field of the body,
\* given or not, over the text fields and stamps issueDate anew
EveryTextField(doc, b, t) ==
  [doc EXCEPT
     !.customerId = IF b.customerId # NoString THEN b.customerId ELSE @,
     !.dueDate = IF b.dueDate # NoDate THEN b.dueDate ELSE @,
     !.currency = b.currency, !.notes = b.notes, !.terms = b.terms,
     !.status = IF b.status # NoString THEN b.status ELSE @,
     !.paidDate = IF b.status = NoString THEN @
                  ELSE IF b.status # "paid" THEN NoDate
                  ELSE IF @ = NoDate THEN t
                  ELSE @]

\* the assignments of updateInvoice to the loaded document, run at instant t:
\* items and totals when items are given, then each field that is given, then
\* status with the paidDate it implies
ApplyUpdate(doc, b, t) ==
  LET totals == CalculateInvoiceTotals(b.items, OrElse(b.taxRate, doc.taxRate),
                                       OrElse(b.discountRate, doc.discountRate))
  IN [doc EXCEPT
        !.customerId = IF b.customerId # NoString THEN b.customerId ELSE @,
        !.items = IF b.items # NoItems THEN WithAmounts(b.items) ELSE @,
        !.subtotal = IF b.items # NoItems THEN totals.subtotal ELSE @,
        !.taxAmount = IF b.items # NoItems THEN totals.taxAmount ELSE @,
        !.discountAmount = IF b.items # NoItems THEN totals.discountAmount ELSE @,
        !.total = IF b.items # NoItems THEN totals.total ELSE @,
        !.dueDate = IF b.dueDate # NoDate THEN b.dueDate ELSE @,
        !.taxRate = IF b.taxRate # NoNumber THEN b.taxRate ELSE @,
        !.discountRate = IF b.discountRate # NoNumber THEN b.discountRate ELSE @,
        !.currency = IF b.currency \notin {NoString, ""} THEN b.currency ELSE @,
        !.notes = IF b.notes # NoString THEN b.notes ELSE @,
        !.terms = IF b.terms # NoString THEN b.terms ELSE @,
        !.status = IF b.status # NoString THEN b.status ELSE @,
        !.paidDate = IF b.status = NoString THEN @
                     ELSE IF b.status # "paid" THEN NoDate
                     ELSE IF @ = NoDate THEN t
                     ELSE @]

\* the customer check of updateInvoice fails: the body names a customer other
\* than the invoice's which Customer.findOne({_id, userId}) does not find
CustomerNotFound(doc, b, u) ==
  /\ b.customerId # NoString
  /\ b.customerId # doc.customerId
  /\ FindCustomer(customers, b.customerId, u) = {}

\* updateInvoice: authenticate, the validation result, the lookup, the
\* customer check, the assignments and invoice.save()
UpdateInvoice(lim, u, id, b) ==
  /\ RoomFor(lim)
  /\ LET found == FindInvoice(invoices, id, u)
         changed == ApplyUpdate(CHOOSE d \in found : TRUE, b, now)
         in == HttpRequest(u, id, b.customerId, b)
     IN IF ~ValidUpdateBody(b)
          THEN UNCHANGED invoices /\ Respond(lim, "updateInvoice", in, Response(400))
        ELSE IF found = {}
          THEN UNCHANGED invoices /\ Respond(lim, "updateInvoice", in, Response(404))
        ELSE IF CustomerNotFound(CHOOSE d \in found : TRUE, b, u)
          THEN UNCHANGED invoices /\ Respond(lim, "updateInvoice", in, Response(404))
        ELSE IF ~SchemaValid(changed)
          THEN UNCHANGED invoices /\ Respond(lim, "updateInvoice", in, Response(500))
        ELSE /\ invoices' = (invoices \ found) \cup {PreSave(changed, now)}
             /\ Respond(lim, "updateInvoice", in, Response(200))
  /\ UNCHANGED <<now, users, customers, nextId, procs, issued>>

\* getInvoiceById: authenticate, the lookup, res.json({invoice})
GetInvoiceById(lim, u, id) ==
  /\ RoomFor(lim)
  /\ LET found == FindInvoice(invoices, id, u)
         in == HttpRequest(u, id, NoString, <<>>)
     IN IF found = {}
          THEN Respond(lim, "getInvoiceById", in, Response(404))
        ELSE Respond(lim, "getInvoiceById", in,
                     [status |-> 200, invoice |-> CHOOSE d \in found : TRUE])
  /\ UNCHANGED <<now, invoices, users, customers, nextId, procs, issued>>

\* generateInvoicePDFController: authenticate, the lookup, the PDF rendered
\* from the invoice found
GenerateInvoicePDF(lim, u, id) ==
  /\ RoomFor(lim)
  /\ LET found == FindInvoice(invoices, id, u)
         in == HttpRequest(u, id, NoString, <<>>)
     IN IF found = {}
          THEN Respond(lim, "generateInvoicePDF", in, Response(404))
        ELSE Respond(lim, "generateInvoicePDF", in,
                     [status |-> 200, invoice |-> CHOOSE d \in found : TRUE])
  /\ UNCHANGED <<now, invoices, users, customers, nextId, procs, issued>>

\* $sum: '$total' over a group of documents
RECURSIVE SumTotals(_)
SumTotals(docs) ==
  IF docs = {} THEN RInt(0)
  ELSE RAdd((CHOOSE d \in docs : TRUE).total,
            SumTotals(docs \ {CHOOSE d \in docs : TRUE}))

\* Invoice.find(filter) of getAllInvoices: the invoices of the user, of the
\* status asked for unless it is absent or 'all'
Listed(invs, userId, status) ==
  {d \in invs : /\ d.userId = userId
                /\ status \in {NoString, "all"} \/ d.status = status}

\* the summary of getAllInvoices: the aggregate over {$match: {userId}}
\* grouped by status, folded into counts and revenues
Summary(invs, userId) ==
  [count |-> [st \in Statuses |->
                Cardinality({d \in invs : d.userId = userId /\ d.status = st})],
   total |-> Cardinality({d \in invs : d.userId = userId}),
   totalRevenue |-> SumTotals({d \in invs : d.userId = userId}),
   paidRevenue |-> SumTotals({d \in invs : d.userId = userId /\ d.status = "paid"})]

\* getAllInvoices with the default page and limit: authenticate, the find,
\* the count, the aggregate, res.json({invoices, pagination, summary})
GetAllInvoices(lim, u, status) ==
  /\ RoomFor(lim)
  /\ Respond(lim, "getAllInvoices", HttpRequest(u, 0, NoString, [status |-> status]),
             [status |-> 200,
              invoices |-> Listed(invoices, u, status),
              total |-> Cardinality(Listed(invoices, u, status)),
              summary |-> Summary(invoices, u)])
  /\ UNCHANGED <<now, invoices, users, customers, nextId, procs, issued>>

\* authenticate on a request without a valid bearer token: 401, and the
\* handler of the route is not entered
Unauthenticated(lim, fn) ==
  /\ RoomFor(lim)
  /\ Respond(lim, fn, HttpRequest(NoString, 0, NoString, <<>>), Response(401))
  /\ UNCHANGED <<now, invoices, users, customers, nextId, procs, issued>>

\* no function has been applied on its own
NoProbe == [fn |-> "none", op |-> "none", in |-> <<>>, out |-> <<>>]

\* the response recorded has left the server
Deliver ==
  /\ probe.op = "return"
  /\ probe' = NoProbe
  /\ UNCHANGED <<now, invoices, users, customers, nextId, procs, issued>>

\* time passes
Tick ==
  /\ now < MaxNow
  /\ now' = now + 1
  /\ UNCHANGED <<invoices, users, customers, nextId, procs, issued, probe>>

\* the users, u1 on the free plan and u2 on a paid plan (maxInvoices -1), each
\* with one customer and a count of held[u] invoices; no request is in flight
RegisteredOn(held, paidPlan) ==
  /\ users = [u \in Users |->
                IF u = "u1"
                  THEN [plan |-> "free", invoiceCount |-> held[u], maxInvoices |-> 5]
                ELSE [plan |-> paidPlan, invoiceCount |-> held[u], maxInvoices |-> -1]]
  /\ customers = {[_id |-> "c1", userId |-> "u1"], [_id |-> "c2", userId |-> "u2"]}
  /\ procs = EmptyBag
  /\ issued = [u \in Users |-> <<>>]

\* u2 is on the pro plan
Registered(held) == RegisteredOn(held, "pro")

Init ==
  /\ now = 0
  /\ invoices = {}
  /\ Registered([u \in Users |-> 0])
  /\ nextId = 1
  /\ probe = NoProbe

\* a step of a handler or of the clock, within the limits lim
Step(lim) ==
  \/ \E u \in Users, c \in {"c1", "c2"}, b \in CreateBodies : CreateBegin(lim, u, c, b)
  \/ \E u \in Users, id \in 1..lim.ids : DuplicateBegin(lim, u, id)
  \/ \E r \in InFlight : Generate(r)
  \/ \E r \in InFlight : SaveNew(lim, r)
  \/ \E r \in InFlight : IncCount(lim, r)
  \/ \E u \in Users, id \in 1..lim.ids : DeleteBegin(lim, u, id)
  \/ \E r \in InFlight : DecCount(lim, r)
  \/ \E u \in Users, id \in 1..lim.ids, b \in UpdateBodies : UpdateInvoice(lim, u, id, b)
  \/ Tick

Next == Step(Concurrent)
NextSeq == Step(Sequential)

\* requests overlap, up to NumProcs of them in flight
Spec == Init /\ [][Next]_vars

\* single writer: a request starts when no other is in flight
SpecSeq == Init /\ [][NextSeq]_vars

(***************************************************************************)
(* The functions applied on their own.                                     *)
(***************************************************************************)
\* item lists of at most MaxItems items are drawn for calculateInvoiceTotals
MaxItems == 2

\* a stored Invoice document of user userId holding the given number
StoredInvoice(id, userId, number) ==
  [BlankDoc EXCEPT !._id = id, !.userId = userId, !.customerId = "c2",
                   !.invoiceNumber = number,
                   !.items = WithAmounts(<<Item(RInt(1), RInt(1))>>),
                   !.subtotal = RInt(1), !.total = RInt(1),
                   !.issueDate = 0, !.dueDate = 0]

\* the numbers of the documents generateInvoiceNumber finds: numbers the
\* generator made, and numbers of corrupted documents (the segment after the
\* prefix missing, empty, or not an integer)
StoredNumbers ==
  LET p == InvoicePrefix(0)
  IN << p \o <<"-", "0", "0", "0", "1">>,
        p \o <<"-", "0", "0", "0", "2">>,
        p,
        p \o <<"-">>,
        p \o <<"-", "1", "2", "a">>,
        p \o <<"-", "0", "N", "a", "N">>,
        InvoicePrefix(1) \o <<"-", "0", "0", "0", "1">> >>

\* the collection holds any of the documents above, all of user u2
InitGen ==
  /\ now \in 0..MaxNow
  /\ \E ids \in SUBSET (1..Len(StoredNumbers)) :
       invoices = {StoredInvoice(i, "u2", StoredNumbers[i]) : i \in ids}
  /\ Registered([u \in Users |-> Cardinality({d \in invoices : d.userId = u})])
  /\ nextId = Len(StoredNumbers) + 1
  /\ probe = NoProbe

\* await generateInvoiceNumber(u): the promise is fulfilled with the number
\* (the function holds no throw, and none of its calls throws on a string)
GenerateNumber(u) ==
  /\ probe.op = "none"
  /\ probe' = Return("generateInvoiceNumber", u,
                     [settled |-> "fulfilled",
                      value |-> GenerateInvoiceNumber(invoices, u, now)])
  /\ UNCHANGED <<now, invoices, users, customers, nextId, procs, issued>>

NextGen == \E u \in Users : GenerateNumber(u)

SpecGen == InitGen /\ [][NextGen]_vars

\* the numbers the generator made at the end of a long month, the sequences
\* 9998 to 10001 of the month of instant 0, and the first one of the month
\* after it
LateNumbers ==
  << GenerateInvoiceNumber({}, "u1", 0),
     InvoicePrefix(0) \o <<"-">> \o PadStart(ToStr(9998), 4, "0"),
     InvoicePrefix(0) \o <<"-">> \o PadStart(ToStr(9999), 4, "0"),
     InvoicePrefix(0) \o <<"-">> \o PadStart(ToStr(10000), 4, "0"),
     InvoicePrefix(0) \o <<"-">> \o PadStart(ToStr(10001), 4, "0"),
     GenerateInvoiceNumber({}, "u1", 1) >>

\* the collection holds the invoices of one owner that deleteInvoice left of
\* the month's sequence: any of the numbers above
InitLate ==
  /\ now \in 0..MaxNow
  /\ \E ids \in SUBSET (1..Len(LateNumbers)) : \E owner \in Users :
       invoices = {StoredInvoice(i, owner, LateNumbers[i]) : i \in ids}
  /\ Registered([u \in Users |-> Cardinality({d \in invoices : d.userId = u})])
  /\ nextId = Len(LateNumbers) + 1
  /\ probe = NoProbe

\* generateInvoiceNumber over the late numbers of a month
SpecLate == InitLate /\ [][NextGen]_vars

\* the arguments calculateInvoiceTotals is applied to
ItemPool ==
  { Item(RInt(1), RInt(2500)), Item(RInt(10), RInt(150)),
    Item(RInt(1), <<1001, 100>>), Item(RInt(3), <<33, 100>>),
    Item(RInt(1), RInt(1)) }

ItemLists == UNION {[1..n -> ItemPool] : n \in 1..MaxItems}

TaxRates == {RInt(0), <<3, 5>>, <<33, 4>>, RInt(100)}

DiscountRates == {RInt(0), <<2, 5>>, RInt(5), RInt(100)}

InitTotals ==
  /\ now = 0
  /\ invoices = {}
  /\ Registered([u \in Users |-> 0])
  /\ nextId = 1
  /\ \E items \in ItemLists, taxRate \in TaxRates, discountRate \in DiscountRates :
       probe = Call("calculateInvoiceTotals",
                    [items |-> items, taxRate |-> taxRate,
                     discountRate |-> discountRate])

\* calculateInvoiceTotals(items, taxRate, discountRate) returns
CalculateTotals ==
  /\ probe.fn = "calculateInvoiceTotals" /\ probe.op = "call"
  /\ probe' = Return(probe.fn, probe.in,
                     CalculateInvoiceTotals(probe.in.items, probe.in.taxRate,
                                            probe.in.discountRate))
  /\ UNCHANGED <<now, invoices, users, customers, nextId, procs, issued>>

NextTotals == CalculateTotals

SpecTotals == InitTotals /\ [][NextTotals]_vars

\* the documents save() is applied to: every status, with and without a
\* paidDate, due at any instant of the clock
SaveDocs ==
  { [StoredInvoice(1, "u1", StoredNumbers[1]) EXCEPT
       !.customerId = "c1",
       !.items = WithAmounts(<<Item(RInt(1), <<1001, 100>>)>>),
       !.subtotal = <<1001, 100>>, !.taxRate = taxRate,
       !.taxAmount = Round2(RDivInt(RMul(<<1001, 100>>, taxRate), 100)),
       !.total = Round2(RAdd(<<1001, 100>>,
                             RDivInt(RMul(<<1001, 100>>, taxRate), 100))),
       !.status = status, !.dueDate = dueDate, !.paidDate = paidDate]
    : status \in Statuses, taxRate \in {RInt(0), <<33, 4>>},
      dueDate \in 0..MaxNow, paidDate \in {NoDate} \cup (0..MaxNow) }

InitSave ==
  /\ now \in 0..MaxNow
  /\ invoices = {}
  /\ Registered([u \in Users |-> 0])
  /\ nextId = 2
  /\ \E doc \in SaveDocs : probe = Call("save", doc)

\* doc.save() up to the write: validation, then the two pre('save') hooks
SaveDocument ==
  /\ probe.fn = "save" /\ probe.op = "call"
  /\ SchemaValid(probe.in)
  /\ probe' = Return(probe.fn, probe.in, PreSave(probe.in, now))
  /\ UNCHANGED <<now, invoices, users, customers, nextId, procs, issued>>

NextSave == SaveDocument

SpecSave == InitSave /\ [][NextSave]_vars

\* updateInvoice applied to one stored invoice: one request at a time,
\* requests and responses recorded
Updating == [procs |-> 1, ids |-> 0, trace |-> TRUE]

\* a PUT body without any field
NoUpdate ==
  [customerId |-> NoString, items |-> NoItems, taxRate |-> NoNumber,
   discountRate |-> NoNumber, dueDate |-> NoDate, status |-> NoString,
   currency |-> NoString, notes |-> NoString, terms |-> NoString]

\* PUT bodies that break one input constraint each: a status that is none;
\* items that are empty, of quantity 0, of a negative rate; a taxRate above
\* 100, a negative discountRate; a dueDate that is no date
InvalidUpdates ==
  {[NoUpdate EXCEPT !.status = "archived"]}
  \cup {[NoUpdate EXCEPT !.items = items] :
          items \in {<<>>, <<Item(RInt(0), RInt(1))>>, <<Item(RInt(1), RInt(-1))>>}}
  \cup {[NoUpdate EXCEPT !.taxRate = RInt(101)],
        [NoUpdate EXCEPT !.discountRate = RInt(-1)],
        [NoUpdate EXCEPT !.dueDate = InvalidDate]}

\* the PUT bodies updateInvoice is applied to: the empty body; each status; a
\* dueDate; the invalid bodies; the caller's customer, another user's and one
\* that does not exist; and the bodies of UpdateBodies
UpdateRequests ==
  {NoUpdate}
  \cup {[NoUpdate EXCEPT !.status = st] : st \in Statuses}
  \cup {[NoUpdate EXCEPT !.dueDate = MaxNow]}
  \cup InvalidUpdates
  \cup {[NoUpdate EXCEPT !.customerId = c] : c \in {"c1", "c2", "c9"}}
  \cup UpdateBodies

\* the stored invoices of u1 updateInvoice is applied to: every status, paid
\* ones with the paidDate of instant 0 and the others without, due at any
\* instant of the clock, with the totals the pre-save hook left
UpdateDocs ==
  { PreSaveTotals([doc EXCEPT !.invoiceNumber = StoredNumbers[2]]) :
      doc \in {d \in SaveDocs : /\ d.paidDate \in {NoDate, 0}
                                /\ d.status = "paid" <=> d.paidDate # NoDate} }

\* u1 holds one invoice, numbered 0002 (its 0001 was deleted); u2 holds the
\* invoice numbered 0001 it made after that
InitUpdate ==
  /\ now \in 0..MaxNow
  /\ \E doc \in UpdateDocs :
       invoices = {doc, [StoredInvoice(2, "u2", StoredNumbers[1]) EXCEPT
                           !.status = "sent"]}
  /\ Registered([u \in Users |-> 1])
  /\ nextId = 4
  /\ probe = NoProbe

\* u1 sends the PUT requests, to its invoice, to the invoice of u2 and to an
\* id that is not stored
NextUpdate ==
  \/ \E id \in 1..3, b \in UpdateRequests : UpdateInvoice(Updating, "u1", id, b)
  \/ Deliver
  \/ Tick

SpecUpdate == InitUpdate /\ [][NextUpdate]_vars

\* the invoices the requests of the API specification may add
MaxApiInvoices == 1

\* the API as a whole: one request at a time, requests and responses recorded
Api == [procs |-> 1, ids |-> 7 + MaxApiInvoices, trace |-> TRUE]

\* the routes of routes/invoices.ts
Routes ==
  {"getAllInvoices", "getInvoiceById", "createInvoice", "updateInvoice",
   "deleteInvoice", "generateInvoicePDF", "duplicateInvoice"}

\* a POST body: the fields createInvoice reads, and a status, a paidDate and
\* a total the client puts beside them
Posted(items, taxRate, discountRate, dueDate, status, paidDate, total) ==
  [items |-> items, taxRate |-> taxRate, discountRate |-> discountRate,
   dueDate |-> dueDate, status |-> status, paidDate |-> paidDate, total |-> total]

\* the bodies of CreateBodies as they are, and with a status, a paidDate and
\* a total put beside their fields
ValidCreates ==
  {Posted(b.items, b.taxRate, b.discountRate, b.dueDate, NoString, NoDate, NoNumber)
     : b \in CreateBodies}
  \cup {Posted(b.items, b.taxRate, b.discountRate, b.dueDate, "paid", 0, RInt(1))
          : b \in CreateBodies}

\* bodies that break one input constraint each: no items, a quantity of 0, a
\* negative rate, a taxRate above 100, a negative discountRate, a dueDate
\* that is no date
InvalidCreates ==
  {Posted(items, NoNumber, NoNumber, 0, NoString, NoDate, NoNumber)
     : items \in {<<>>, <<Item(RInt(0), RInt(1))>>, <<Item(RInt(1), RInt(-1))>>}}
  \cup {Posted(<<Item(RInt(1), RInt(1))>>, taxRate, discountRate, dueDate,
               NoString, NoDate, NoNumber)
          : taxRate \in {RInt(101)}, discountRate \in {NoNumber}, dueDate \in {0}}
  \cup {Posted(<<Item(RInt(1), RInt(1))>>, taxRate, discountRate, dueDate,
               NoString, NoDate, NoNumber)
          : taxRate \in {NoNumber}, discountRate \in {RInt(-1)}, dueDate \in {0}}
  \cup {Posted(<<Item(RInt(1), RInt(1))>>, taxRate, discountRate, dueDate,
               NoString, NoDate, NoNumber)
          : taxRate \in {NoNumber}, discountRate \in {NoNumber},
            dueDate \in {InvalidDate}}

CreateRequests == ValidCreates \cup InvalidCreates

\* the PUT bodies of the API specification: a status, a customer, the
\* invalid bodies, and an invalid body with a customer
ApiUpdates ==
  {[NoUpdate EXCEPT !.status = "paid"], [NoUpdate EXCEPT !.customerId = "c1"],
   [NoUpdate EXCEPT !.customerId = "c9"],
   [NoUpdate EXCEPT !.customerId = "c9", !.taxRate = RInt(101)]}
  \cup InvalidUpdates

\* the ids the requests address: 1 is not stored, 2 is of u1, 3 is of u2
ApiTargets == 1..3

\* the number with sequence n of the month of instant 0
HeldNumber(n) == InvoicePrefix(0) \o <<"-">> \o PadStart(ToStr(n), 4, "0")

\* the document createInvoice stored at instant t for body b
Created(id, u, customerId, number, b, t) ==
  PreSave(NewInvoice(id, u, customerId, number, b,
                     CalculateInvoiceTotals(b.items, OrDefault(b.taxRate, RInt(0)),
                                            OrDefault(b.discountRate, RInt(0))),
                     t), t)

\* u1, on the free plan, made 0001 and 0002, deleted 0001, and made invoices
\* up to one less than its limit of 5 (u2 being on the pro plan) or up to its
\* limit (u2 being on the business plan); u2 made its 0001 after the deletion
InitApi ==
  /\ now = 0
  /\ \E paidPlan \in {"pro", "business"} :
     \E ids \in {IF paidPlan = "pro" THEN {2, 4, 5, 6} ELSE {2, 4, 5, 6, 7}} :
       /\ invoices =
            {Created(id, "u1", "c1", HeldNumber(IF id = 2 THEN 2 ELSE id - 1), b, 0)
               : id \in ids, b \in CreateBodies}
            \cup {Created(3, "u2", "c2", HeldNumber(1), b, 0) : b \in CreateBodies}
       /\ RegisteredOn([u \in Users |-> IF u = "u1" THEN Cardinality(ids) ELSE 1],
                       paidPlan)
  /\ nextId = 8
  /\ probe = NoProbe

\* a step of a handler of any route, of authenticate refusing a request, or
\* of the clock
NextApi ==
  \/ \E u \in Users, c \in {"c1", "c2", "c9"}, b \in CreateRequests :
       CreateBegin(Api, u, c, b)
  \/ \E u \in Users, id \in ApiTargets : DuplicateBegin(Api, u, id)
  \/ \E r \in InFlight : Generate(r)
  \/ \E r \in InFlight : SaveNew(Api, r)
  \/ \E r \in InFlight : IncCount(Api, r)
  \/ \E u \in Users, id \in ApiTargets : DeleteBegin(Api, u, id)
  \/ \E r \in InFlight : DecCount(Api, r)
  \/ \E u \in Users, id \in ApiTargets, b \in ApiUpdates : UpdateInvoice(Api, u, id, b)
  \/ \E u \in Users, id \in ApiTargets : GetInvoiceById(Api, u, id)
  \/ \E u \in Users, id \in ApiTargets : GenerateInvoicePDF(Api, u, id)
  \/ \E u \in Users, status \in {NoString, "paid"} : GetAllInvoices(Api, u, status)
  \/ \E fn \in Routes : Unauthenticated(Api, fn)
  \/ Deliver
  \/ Tick

SpecApi == InitApi /\ [][NextApi]_vars

\* the PUT bodies that change items or rates: new items alone, with a taxRate
\* of 0, with a discountRate of 0; a taxRate alone, a discountRate alone
RateUpdates ==
  { [NoUpdate EXCEPT !.items = <<Item(RInt(3), <<33, 100>>), Item(RInt(1), RInt(1))>>],
    [NoUpdate EXCEPT !.items = <<Item(RInt(3), <<33, 100>>)>>, !.taxRate = RInt(0)],
    [NoUpdate EXCEPT !.items = <<Item(RInt(10), RInt(150))>>, !.discountRate = RInt(0)],
    [NoUpdate EXCEPT !.taxRate = RInt(100)],
    [NoUpdate EXCEPT !.taxRate = RInt(0)],
    [NoUpdate EXCEPT !.discountRate = RInt(5)] }

\* u1 sends the PUT requests that change items or rates to its invoice
NextRates ==
  \/ \E b \in RateUpdates : UpdateInvoice(Updating, "u1", 1, b)
  \/ Deliver
  \/ Tick

SpecRates == InitUpdate /\ [][NextRates]_vars

\* the PUT bodies that hold one field or none: a currency, notes (also
\* empty), terms, a dueDate, a customer, items, or a status
FrameUpdates ==
  { NoUpdate,
    [NoUpdate EXCEPT !.currency = "EUR"], [NoUpdate EXCEPT !.currency = ""],
    [NoUpdate EXCEPT !.notes = "thanks"], [NoUpdate EXCEPT !.notes = ""],
    [NoUpdate EXCEPT !.terms = "net 30"],
    [NoUpdate EXCEPT !.dueDate = 0], [NoUpdate EXCEPT !.dueDate = MaxNow],
    [NoUpdate EXCEPT !.customerId = "c1"],
    [NoUpdate EXCEPT !.items = <<Item(RInt(3), <<33, 100>>)>>],
    [NoUpdate EXCEPT !.status = "sent"] }

\* u1 sends the PUT requests of one field to its invoice
NextFrame ==
  \/ \E b \in FrameUpdates : UpdateInvoice(Updating, "u1", 1, b)
  \/ Deliver
  \/ Tick

SpecFrame == InitUpdate /\ [][NextFrame]_vars

\* requests that overlap, up to NumProcs of them, each making an invoice
AtLimit == [procs |-> NumProcs, ids |-> 7 + NumProcs, trace |-> FALSE]

\* u1, one invoice below its limit or at it, sends POST / and POST
\* /:id/duplicate requests that overlap, while the clock moves
NextLimit ==
  \/ \E b \in CreateBodies : CreateBegin(AtLimit, "u1", "c1", b)
  \/ \E id \in 1..AtLimit.ids : DuplicateBegin(AtLimit, "u1", id)
  \/ \E r \in InFlight : Generate(r)
  \/ \E r \in InFlight : SaveNew(AtLimit, r)
  \/ \E r \in InFlight : IncCount(AtLimit, r)
  \/ Tick

SpecLimit == InitApi /\ [][NextLimit]_vars

\* one request at a time, two invoices made
Paying == [procs |-> 1, ids |-> 2, trace |-> FALSE]

\* the PUT bodies that hold nothing or a status
StatusUpdates == {NoUpdate} \cup {[NoUpdate EXCEPT !.status = st] : st \in Statuses}

\* u1 makes, duplicates, deletes invoices and sets their status, from the
\* empty store on
NextPaid ==
  \/ \E b \in CreateBodies : CreateBegin(Paying, "u1", "c1", b)
  \/ \E id \in 1..Paying.ids : DuplicateBegin(Paying, "u1", id)
  \/ \E r \in InFlight : Generate(r)
  \/ \E r \in InFlight : SaveNew(Paying, r)
  \/ \E r \in InFlight : IncCount(Paying, r)
  \/ \E id \in 1..Paying.ids : DeleteBegin(Paying, "u1", id)
  \/ \E r \in InFlight : DecCount(Paying, r)
  \/ \E id \in 1..Paying.ids, b \in StatusUpdates : UpdateInvoice(Paying, "u1", id, b)
  \/ Tick

SpecPaid == Init /\ [][NextPaid]_vars

(***************************************************************************)
(* routes/customers.ts                                                     *)
(***************************************************************************)
\* the customers and invoices made in the customer specification
MaxMade == 2

\* a Customer document
Customer(id, userId, email) == [_id |-> id, userId |-> userId, email |-> email]

\* the ObjectId of the customer made with the n-th ObjectId drawn
CustomerIds == <<"c3", "c4", "c5", "c6">>

\* a body of PUT /customers/:id without any field
NoCustomerUpdate == [email |-> NoString, userId |-> NoString]

\* isEmail: the model's strings other than "nobody" are email addresses
ValidEmail(email) == email \notin {NoString, "nobody"}

\* Customer.findOne({userId, email, _id: {$ne: id}})
FindByEmail(custs, userId, email, id) ==
  {c \in custs : c.userId = userId /\ c.email = email /\ c._id # id}

\* the unique index {userId: 1, email: 1} of customerSchema
EmailIndexViolation(custs, doc) ==
  \E c \in custs : c._id # doc._id /\ c.userId = doc.userId /\ c.email = doc.email

\* POST /customers: authenticate, the validation result, the lookup by email,
\* new Customer({...req.body, userId: req.user._id}) and save()
CreateCustomer(lim, u, b) ==
  /\ RoomFor(lim)
  /\ IdsLeft(lim)
  /\ IF ~ValidEmail(b.email) \/ FindByEmail(customers, u, b.email, NoString) # {}
       THEN /\ UNCHANGED <<customers, nextId>>
            /\ Respond(lim, "createCustomer", HttpRequest(u, NoString, NoString, b),
                       Response(400))
     ELSE /\ customers' = customers \cup {Customer(CustomerIds[nextId], u, b.email)}
          /\ nextId' = nextId + 1
          /\ Respond(lim, "createCustomer", HttpRequest(u, NoString, NoString, b),
                     Response(201))
  /\ UNCHANGED <<now, invoices, users, procs, issued>>

\* the document findOneAndUpdate(filter, req.body) leaves: every field of the
\* body that the schema has is set
Updated(doc, b) ==
  [doc EXCEPT !.email = IF b.email # NoString THEN b.email ELSE @,
              !.userId = IF b.userId # NoString THEN b.userId ELSE @]

\* PUT /customers/:id: authenticate, the validation result, the lookup by
\* email, findOneAndUpdate({_id, userId}, req.body)
UpdateCustomer(lim, u, id, b) ==
  /\ RoomFor(lim)
  /\ IF (b.email # NoString /\ ~ValidEmail(b.email))
          \/ (b.email # NoString /\ FindByEmail(customers, u, b.email, id) # {})
       THEN /\ UNCHANGED customers
            /\ Respond(lim, "updateCustomer", HttpRequest(u, id, NoString, b),
                       Response(400))
     ELSE IF FindCustomer(customers, id, u) = {}
       THEN /\ UNCHANGED customers
            /\ Respond(lim, "updateCustomer", HttpRequest(u, id, NoString, b),
                       Response(404))
     ELSE IF EmailIndexViolation(customers,
                                 Updated(CHOOSE c \in FindCustomer(customers, id, u) : TRUE,
                                         b))
       THEN /\ UNCHANGED customers
            /\ Respond(lim, "updateCustomer", HttpRequest(u, id, NoString, b),
                       Response(500))
     ELSE /\ customers' =
               (customers \ FindCustomer(customers, id, u))
                 \cup {Updated(CHOOSE c \in FindCustomer(customers, id, u) : TRUE, b)}
          /\ Respond(lim, "updateCustomer", HttpRequest(u, id, NoString, b),
                     Response(200))
  /\ UNCHANGED <<now, invoices, users, nextId, procs, issued>>

\* DELETE /customers/:id: authenticate and findOneAndDelete({_id, userId})
DeleteCustomer(lim, u, id) ==
  /\ RoomFor(lim)
  /\ IF FindCustomer(customers, id, u) = {}
       THEN /\ UNCHANGED customers
            /\ Respond(lim, "deleteCustomer", HttpRequest(u, id, NoString, <<>>),
                       Response(404))
     ELSE /\ customers' = customers \ FindCustomer(customers, id, u)
          /\ Respond(lim, "deleteCustomer", HttpRequest(u, id, NoString, <<>>),
                     Response(200))
  /\ UNCHANGED <<now, invoices, users, nextId, procs, issued>>

\* one request at a time, requests and responses recorded, MaxMade customers
\* and invoices made
Customers == [procs |-> 1, ids |-> MaxMade, trace |-> TRUE]

\* the bodies of POST /customers and PUT /customers/:id: an email, none or
\* one that is no email, and beside it no userId or the _id of a user
CustomerBodies ==
  [email : {NoString, "a@x.io", "b@x.io", "nobody"}, userId : {NoString} \cup Users]

\* no invoice is stored; each user has one customer
InitCustomers ==
  /\ now = 0
  /\ invoices = {}
  /\ users = [u \in Users |->
                IF u = "u1"
                  THEN [plan |-> "free", invoiceCount |-> 0, maxInvoices |-> 5]
                ELSE [plan |-> "pro", invoiceCount |-> 0, maxInvoices |-> -1]]
  /\ customers = {Customer("c1", "u1", "a@x.io"), Customer("c2", "u2", "b@x.io")}
  /\ procs = EmptyBag
  /\ issued = [u \in Users |-> <<>>]
  /\ nextId = 1
  /\ probe = NoProbe

\* the customers of the model by _id
CustomerTargets == {"c1", "c2", "c3"}

\* the users make, change and delete customers; u1 makes invoices and moves
\* them to another customer
NextCustomers ==
  \/ \E u \in Users, b \in CustomerBodies : CreateCustomer(Customers, u, b)
  \/ \E u \in Users, id \in CustomerTargets, b \in CustomerBodies :
       UpdateCustomer(Customers, u, id, b)
  \/ \E u \in Users, id \in CustomerTargets : DeleteCustomer(Customers, u, id)
  \/ \E c \in CustomerTargets, b \in CreateBodies : CreateBegin(Customers, "u1", c, b)
  \/ \E r \in InFlight : Generate(r)
  \/ \E r \in InFlight : SaveNew(Customers, r)
  \/ \E r \in InFlight : IncCount(Customers, r)
  \/ \E id \in 1..Customers.ids, c \in CustomerTargets :
       UpdateInvoice(Customers, "u1", id, [NoUpdate EXCEPT !.customerId = c])
  \/ Deliver

SpecCustomers == InitCustomers /\ [][NextCustomers]_vars

(***************************************************************************)
(* JavaScript numbers as they are: IEEE-754 binary64, round to nearest,    *)
(* ties to even.  A natural number of any size is the sequence of its      *)
(* digits in base 2^15, least significant first, without leading zeros.    *)
(***************************************************************************)
Base == 2^15

Limb(a) == IF a = <<>> THEN 0 ELSE Head(a)

Rest(a) == IF a = <<>> THEN <<>> ELSE Tail(a)

RECURSIVE BTrim(_)
BTrim(a) ==
  IF a = <<>> THEN <<>>
  ELSE IF a[Len(a)] = 0 THEN BTrim(SubSeq(a, 1, Len(a) - 1))
  ELSE a

RECURSIVE BFromInt(_)
BFromInt(n) == IF n = 0 THEN <<>> ELSE <<n % Base>> \o BFromInt(n \div Base)

RECURSIVE BMulSmallC(_, _, _)
BMulSmallC(a, k, c) ==
  IF a = <<>> THEN BFromInt(c)
  ELSE <<(Head(a) * k + c) % Base>>
         \o BMulSmallC(Tail(a), k, (Head(a) * k + c) \div Base)

\* a * k for a digit k
BMulSmall(a, k) == IF k = 0 THEN <<>> ELSE BMulSmallC(a, k, 0)

RECURSIVE BAddC(_, _, _)
BAddC(a, b, c) ==
  IF a = <<>> /\ b = <<>> THEN BFromInt(c)
  ELSE <<(Limb(a) + Limb(b) + c) % Base>>
         \o BAddC(Rest(a), Rest(b), (Limb(a) + Limb(b) + c) \div Base)

BAdd(a, b) == BAddC(a, b, 0)

RECURSIVE BSubB(_, _, _)
BSubB(a, b, c) ==
  IF a = <<>> /\ b = <<>> THEN <<>>
  ELSE <<(Limb(a) - Limb(b) - c) % Base>>
         \o BSubB(Rest(a), Rest(b), IF Limb(a) - Limb(b) - c < 0 THEN 1 ELSE 0)

\* a - b for a >= b
BSub(a, b) == BTrim(BSubB(a, b, 0))

RECURSIVE BCmpTop(_, _)
BCmpTop(a, b) ==
  IF a = <<>> THEN 0
  ELSE IF a[Len(a)] < b[Len(b)] THEN -1
  ELSE IF a[Len(a)] > b[Len(b)] THEN 1
  ELSE BCmpTop(SubSeq(a, 1, Len(a) - 1), SubSeq(b, 1, Len(b) - 1))

\* -1, 0 or 1 as a is less than, equal to or greater than b
BCmp(a, b) ==
  IF Len(a) < Len(b) THEN -1
  ELSE IF Len(a) > Len(b) THEN 1
  ELSE BCmpTop(a, b)

RECURSIVE BMul(_, _)
BMul(a, b) ==
  IF a = <<>> \/ b = <<>> THEN <<>>
  ELSE BAdd(BMulSmall(a, Head(b)), BTrim(<<0>> \o BMul(a, Tail(b))))

RECURSIVE BRem(_, _)
BRem(a, k) == IF a = <<>> THEN 0 ELSE (BRem(Tail(a), k) * Base + Head(a)) % k

RECURSIVE BQuoDigits(_, _)
BQuoDigits(a, k) ==
  IF a = <<>> THEN <<>>
  ELSE <<(BRem(Tail(a), k) * Base + Head(a)) \div k>> \o BQuoDigits(Tail(a), k)

\* the quotient of a by k, for 0 < k <= Base
BQuo(a, k) == BTrim(BQuoDigits(a, k))

RECURSIVE Bits(_)
Bits(n) == IF n = 0 THEN 0 ELSE 1 + Bits(n \div 2)

\* the number of binary digits of a
BBitLen(a) == IF a = <<>> THEN 0 ELSE 15 * (Len(a) - 1) + Bits(a[Len(a)])

\* a * 2^n and the integer part of a / 2^n
BShl(a, n) ==
  IF a = <<>> THEN <<>>
  ELSE [i \in 1..(n \div 15) |-> 0] \o BMulSmall(a, 2^(n % 15))

BShr(a, n) == BQuo(SubSeq(a, (n \div 15) + 1, Len(a)), 2^(n % 15))

\* how the n lowest binary digits of a compare with a half of 2^n
BCmpHalf(a, n) ==
  IF n = 0 THEN -1
  ELSE BCmp(BShl(BSub(a, BShl(BShr(a, n), n)), 1), BShl(<<1>>, n))

\* a number: sign s, and magnitude m * 2^e with m = 0 or 2^52 <= m < 2^53
F64(s, m, e) == [s |-> s, m |-> m, e |-> IF m = <<>> THEN 0 ELSE e]

\* the 53 leading digits q of a longer magnitude, rounded up when up
Rounded(s, q, up, e) ==
  IF ~up THEN F64(s, q, e)
  ELSE IF BBitLen(BAdd(q, <<1>>)) > 53 THEN F64(s, BShr(BAdd(q, <<1>>), 1), e + 1)
  ELSE F64(s, BAdd(q, <<1>>), e)

\* the number nearest to s * n * 2^e, a tie going to the even one
RoundBig(s, n, e) ==
  IF BBitLen(n) <= 53 THEN F64(s, BShl(n, 53 - BBitLen(n)), e - (53 - BBitLen(n)))
  ELSE Rounded(s, BShr(n, BBitLen(n) - 53),
               \/ BCmpHalf(n, BBitLen(n) - 53) = 1
               \/ /\ BCmpHalf(n, BBitLen(n) - 53) = 0
                  /\ Limb(BShr(n, BBitLen(n) - 53)) % 2 = 1,
               e + BBitLen(n) - 53)

\* the number an integer literal denotes
Num(n) == RoundBig(IF n < 0 THEN -1 ELSE 1, BFromInt(IF n < 0 THEN -n ELSE n), 0)

IsZero(x) == x.m = <<>>

\* x * y
Times(x, y) == RoundBig(x.s * y.s, BMul(x.m, y.m), x.e + y.e)

\* x / k for an integer 0 < k < Base: the quotient of x * 2^30 with one more
\* digit that tells whether the division left a remainder
Over(x, k) ==
  RoundBig(x.s,
           BAdd(BShl(BQuo(BShl(x.m, 30), k), 1),
                IF BRem(BShl(x.m, 30), k) = 0 THEN <<>> ELSE <<1>>),
           x.e - 31)

\* the magnitudes of x and y on the smaller exponent of the two
Aligned(x, y) == BShl(x.m, x.e - (IF x.e < y.e THEN x.e ELSE y.e))

\* x + y
Plus(x, y) ==
  IF IsZero(x) /\ IsZero(y) THEN F64(IF x.s = -1 /\ y.s = -1 THEN -1 ELSE 1, <<>>, 0)
  ELSE IF IsZero(x) THEN y
  ELSE IF IsZero(y) THEN x
  ELSE IF x.s = y.s
    THEN RoundBig(x.s, BAdd(Aligned(x, y), Aligned(y, x)),
                  IF x.e < y.e THEN x.e ELSE y.e)
  ELSE IF BCmp(Aligned(x, y), Aligned(y, x)) = 0 THEN F64(1, <<>>, 0)
  ELSE IF BCmp(Aligned(x, y), Aligned(y, x)) = 1
    THEN RoundBig(x.s, BSub(Aligned(x, y), Aligned(y, x)),
                  IF x.e < y.e THEN x.e ELSE y.e)
  ELSE RoundBig(y.s, BSub(Aligned(y, x), Aligned(x, y)),
                IF x.e < y.e THEN x.e ELSE y.e)

Negated(x) == [x EXCEPT !.s = -x.s]

\* x - y
Minus(x, y) == Plus(x, Negated(y))

\* x < y and x <= y
Below(x, y) ==
  /\ ~(IsZero(x) /\ IsZero(y))
  /\ Minus(x, y).s = -1 /\ ~IsZero(Minus(x, y))

AtMost(x, y) == ~Below(y, x)

\* Math.round(x): the nearest integer, a half going up
MathRound64(x) ==
  IF x.e >= 0 THEN x
  ELSE RoundBig(x.s,
                BAdd(BShr(x.m, -x.e),
                     IF \/ BCmpHalf(x.m, -x.e) = 1
                        \/ BCmpHalf(x.m, -x.e) = 0 /\ x.s = 1
                     THEN <<1>> ELSE <<>>),
                0)

\* the literal n / d of a request body, as JSON.parse reads it: the number
\* nearest to the quotient
Dec(n, d) == Over(Num(n), d)

(***************************************************************************)
(* Invoices with JavaScript numbers.                                       *)
(***************************************************************************)
\* a number that is undefined
NoNum64 == [s |-> 0, m |-> <<>>, e |-> 0]

\* a line item of a request body, holding numbers
Item64(q, r) == [quantity |-> q, rate |-> r, amount |-> Num(0)]

\* items that are undefined
NoItems64 == <<Item64(NoNum64, NoNum64)>>

BlankDoc64 ==
  [BlankDoc EXCEPT !.subtotal = Num(0), !.taxRate = Num(0), !.taxAmount = Num(0),
                   !.discountRate = Num(0), !.discountAmount = Num(0),
                   !.total = Num(0)]

\* a || b on numbers: b when a is undefined or 0
OrElse64(a, b) == IF a = NoNum64 \/ IsZero(a) THEN b ELSE a

\* items.map(item => ({...item, amount: item.quantity * item.rate}))
WithAmounts64(items) ==
  [i \in DOMAIN items |->
     [items[i] EXCEPT !.amount = Times(items[i].quantity, items[i].rate)]]

\* items.reduce((sum, item) => sum + item.quantity * item.rate, sum)
RECURSIVE SumAmounts64(_, _)
SumAmounts64(items, sum) ==
  IF items = <<>> THEN sum
  ELSE SumAmounts64(Tail(items),
                    Plus(sum, Times(Head(items).quantity, Head(items).rate)))

\* (subtotal * rate) / 100
Share64(subtotal, rate) == Over(Times(subtotal, rate), 100)

\* subtotal + taxAmount - discountAmount
Total64(subtotal, taxRate, discountRate) ==
  Minus(Plus(subtotal, Share64(subtotal, taxRate)), Share64(subtotal, discountRate))

\* Math.round(x * 100) / 100
Round2In64(x) == Over(MathRound64(Times(x, Num(100))), 100)

\* calculateInvoiceTotals on the sum of the amounts
RoundedTotals64(subtotal, taxRate, discountRate) ==
  [subtotal |-> Round2In64(subtotal),
   taxAmount |-> Round2In64(Share64(subtotal, taxRate)),
   discountAmount |-> Round2In64(Share64(subtotal, discountRate)),
   total |-> Round2In64(Total64(subtotal, taxRate, discountRate))]

CalculateInvoiceTotals64(items, taxRate, discountRate) ==
  RoundedTotals64(SumAmounts64(items, Num(0)), taxRate, discountRate)

\* the totals the first pre('save') hook leaves beside a sum of the amounts
WithTotals64(doc, subtotal) ==
  [doc EXCEPT !.items = WithAmounts64(@),
              !.subtotal = subtotal,
              !.taxAmount = Share64(subtotal, doc.taxRate),
              !.discountAmount = Share64(subtotal, doc.discountRate),
              !.total = Total64(subtotal, doc.taxRate, doc.discountRate)]

\* the first pre('save') hook
PreSaveTotals64(doc) == WithTotals64(doc, SumAmounts64(doc.items, Num(0)))

\* both pre('save') hooks
PreSave64(doc, t) == PreSaveStatus(PreSaveTotals64(doc), t)

\* Mongoose's validation of a document against invoiceSchema
SchemaValid64(doc) ==
  /\ doc.status \in Statuses
  /\ Len(doc.invoiceNumber) > 0
  /\ Len(doc.items) > 0
  /\ \A i \in 1..Len(doc.items) :
        /\ AtMost(Dec(1, 100), doc.items[i].quantity)
        /\ AtMost(Num(0), doc.items[i].rate)
        /\ AtMost(Num(0), doc.items[i].amount)
  /\ AtMost(Num(0), doc.subtotal) /\ AtMost(Num(0), doc.total)
  /\ AtMost(Num(0), doc.taxAmount) /\ AtMost(Num(0), doc.discountAmount)
  /\ AtMost(Num(0), doc.taxRate) /\ AtMost(doc.taxRate, Num(100))
  /\ AtMost(Num(0), doc.discountRate) /\ AtMost(doc.discountRate, Num(100))
  /\ doc.dueDate # NoDate /\ doc.issueDate # NoDate

ValidItems64(items) ==
  /\ Len(items) >= 1
  /\ \A i \in 1..Len(items) :
        Below(Num(0), items[i].quantity) /\ AtMost(Num(0), items[i].rate)

ValidRate64(x) == x = NoNum64 \/ (AtMost(Num(0), x) /\ AtMost(x, Num(100)))

\* invoiceValidation and invoiceUpdateValidation: no validation error
ValidCreateBody64(b) ==
  /\ ValidItems64(b.items)
  /\ ValidDate(b.dueDate)
  /\ ValidRate64(b.taxRate) /\ ValidRate64(b.discountRate)

ValidUpdateBody64(b) ==
  /\ b.items = NoItems64 \/ ValidItems64(b.items)
  /\ b.dueDate = NoDate \/ ValidDate(b.dueDate)
  /\ ValidRate64(b.taxRate) /\ ValidRate64(b.discountRate)
  /\ b.status = NoString \/ b.status \in Statuses

\* new Invoice({...}) of createInvoice
NewInvoice64(userId, customerId, b, totals) ==
  [BlankDoc64 EXCEPT !.userId = userId, !.customerId = customerId,
                     !.items = WithAmounts64(b.items),
                     !.subtotal = totals.subtotal,
                     !.taxRate = b.taxRate,
                     !.taxAmount = totals.taxAmount,
                     !.discountRate = b.discountRate,
                     !.discountAmount = totals.discountAmount,
                     !.total = totals.total,
                     !.dueDate = b.dueDate]

\* createInvoice up to generateInvoiceNumber, for a body that gives both rates
CreateBegin64(lim, u, customerId, b) ==
  /\ RoomFor(lim)
  /\ IdsLeft(lim)
  /\ IF InvoiceLimitReached(users[u])
       THEN UNCHANGED procs
            /\ Respond(lim, "createInvoice", HttpRequest(u, 0, customerId, b),
                       Response(403))
     ELSE IF ~ValidCreateBody64(b)
       THEN UNCHANGED procs
            /\ Respond(lim, "createInvoice", HttpRequest(u, 0, customerId, b),
                       Response(400))
     ELSE IF FindCustomer(customers, customerId, u) = {}
       THEN UNCHANGED procs
            /\ Respond(lim, "createInvoice", HttpRequest(u, 0, customerId, b),
                       Response(404))
     ELSE /\ procs' = Started(Request("generate", "create", u,
                                      NewInvoice64(u, customerId, b,
                                                   CalculateInvoiceTotals64(
                                                     b.items, b.taxRate,
                                                     b.discountRate))))
          /\ Receive(lim, "createInvoice", HttpRequest(u, 0, customerId, b))
  /\ UNCHANGED <<now, invoices, users, customers, nextId, issued>>

\* the write of invoice.save() of a new document
InsertNew64(lim, r, stored) ==
  IF ~SchemaValid64(r.doc) \/ DuplicateKey(invoices, stored)
    THEN /\ procs' = Finished(r)
         /\ Respond(lim, probe.fn, probe.in, Response(500))
         /\ UNCHANGED <<invoices, issued>>
  ELSE /\ invoices' = invoices \cup {stored}
       /\ issued' = [issued EXCEPT ![r.user] = Append(@, stored.invoiceNumber)]
       /\ procs' = Moved(r, [r EXCEPT !.pc = "inc", !.doc = BlankDoc64])
       /\ UNCHANGED probe

\* await invoice.save() of a new document: validation, the pre-save hooks,
\* the insert; an error ends the request in the catch block with 500
SaveNew64(lim, r) ==
  /\ r.pc = "save"
  /\ InsertNew64(lim, r, PreSave64(r.doc, now))
  /\ UNCHANGED <<now, users, customers, nextId>>

\* the assignments of updateInvoice to the loaded document, run at instant t
ApplyUpdate64(doc, b, t) ==
  [doc EXCEPT
     !.customerId = IF b.customerId # NoString THEN b.customerId ELSE @,
     !.items = IF b.items # NoItems64 THEN WithAmounts64(b.items) ELSE @,
     !.subtotal =
       IF b.items # NoItems64
         THEN CalculateInvoiceTotals64(b.items, OrElse64(b.taxRate, doc.taxRate),
                                       OrElse64(b.discountRate, doc.discountRate)
                                      ).subtotal
       ELSE @,
     !.taxAmount =
       IF b.items # NoItems64
         THEN CalculateInvoiceTotals64(b.items, OrElse64(b.taxRate, doc.taxRate),
                                       OrElse64(b.discountRate, doc.discountRate)
                                      ).taxAmount
       ELSE @,
     !.discountAmount =
       IF b.items # NoItems64
         THEN CalculateInvoiceTotals64(b.items, OrElse64(b.taxRate, doc.taxRate),
                                       OrElse64(b.discountRate, doc.discountRate)
                                      ).discountAmount
       ELSE @,
     !.total =
       IF b.items # NoItems64
         THEN CalculateInvoiceTotals64(b.items, OrElse64(b.taxRate, doc.taxRate),
                                       OrElse64(b.discountRate, doc.discountRate)
                                      ).total
       ELSE @,
     !.dueDate = IF b.dueDate # NoDate THEN b.dueDate ELSE @,
     !.taxRate = IF b.taxRate # NoNum64 THEN b.taxRate ELSE @,
     !.discountRate = IF b.discountRate # NoNum64 THEN b.discountRate ELSE @,
     !.status = IF b.status # NoString THEN b.status ELSE @,
     !.paidDate = IF b.status = NoString THEN @
                  ELSE IF b.status # "paid" THEN NoDate
                  ELSE IF @ = NoDate THEN t
                  ELSE @]

\* the end of updateInvoice for the invoice found: the customer check, the
\* assignments and invoice.save()
SaveUpdate64(lim, u, in, doc, changed) ==
  IF CustomerNotFound(doc, in.body, u)
    THEN UNCHANGED invoices /\ Respond(lim, "updateInvoice", in, Response(404))
  ELSE IF ~SchemaValid64(changed)
    THEN UNCHANGED invoices /\ Respond(lim, "updateInvoice", in, Response(500))
  ELSE /\ invoices' = (invoices \ {doc}) \cup {PreSave64(changed, now)}
       /\ Respond(lim, "updateInvoice", in, Response(200))

\* updateInvoice
UpdateInvoice64(lim, u, id, b) ==
  /\ RoomFor(lim)
  /\ IF ~ValidUpdateBody64(b)
       THEN UNCHANGED invoices
            /\ Respond(lim, "updateInvoice", HttpRequest(u, id, b.customerId, b),
                       Response(400))
     ELSE IF FindInvoice(invoices, id, u) = {}
       THEN UNCHANGED invoices
            /\ Respond(lim, "updateInvoice", HttpRequest(u, id, b.customerId, b),
                       Response(404))
     ELSE SaveUpdate64(lim, u, HttpRequest(u, id, b.customerId, b),
                       CHOOSE d \in FindInvoice(invoices, id, u) : TRUE,
                       ApplyUpdate64(CHOOSE d \in FindInvoice(invoices, id, u) : TRUE,
                                     b, now))
  /\ UNCHANGED <<now, users, customers, nextId, procs, issued>>

\* one request at a time, requests and responses recorded, one invoice made
Numbers == [procs |-> 1, ids |-> 1, trace |-> TRUE]

\* the POST bodies: one item of a quantity of 0.01, 1 or 3 at a rate of 0.07,
\* 1.55, 10.01 or 2500, a taxRate of 0, 8.25 or 100, a discountRate of 0, 5
\* or 100
NumberBodies ==
  { [items |-> <<Item64(q, r)>>, taxRate |-> taxRate,
     discountRate |-> discountRate, dueDate |-> 0]
    : q \in {Dec(1, 100), Num(1), Num(3)},
      r \in {Dec(7, 100), Dec(155, 100), Dec(1001, 100), Num(2500)},
      taxRate \in {Num(0), Dec(825, 100), Num(100)},
      discountRate \in {Num(0), Num(5), Num(100)} }

\* a PUT body without any field
NoUpdate64 ==
  [customerId |-> NoString, items |-> NoItems64, taxRate |-> NoNum64,
   discountRate |-> NoNum64, dueDate |-> NoDate, status |-> NoString]

\* the PUT bodies: a status alone, a discountRate alone, items alone
NumberUpdates ==
  { [NoUpdate64 EXCEPT !.status = "sent"],
    [NoUpdate64 EXCEPT !.discountRate = Num(100)],
    [NoUpdate64 EXCEPT !.items = <<Item64(Num(3), Dec(7, 100))>>] }

NextNumbers ==
  \/ \E b \in NumberBodies : CreateBegin64(Numbers, "u1", "c1", b)
  \/ \E r \in InFlight : Generate(r)
  \/ \E r \in InFlight : SaveNew64(Numbers, r)
  \/ \E r \in InFlight : IncCount(Numbers, r)
  \/ \E b \in NumberUpdates : UpdateInvoice64(Numbers, "u1", 1, b)
  \/ Deliver

\* u1 makes an invoice and updates it, its numbers being JavaScript numbers
SpecNumbers == Init /\ [][NextNumbers]_vars

(***************************************************************************)
(* The pages of getAllInvoices.                                            *)
(***************************************************************************)
\* the caller of the listing holds at most MaxListed invoices
MaxListed == 3

\* a query parameter that is not given
Absent == <<NoString>>

\* a stored invoice with the createdAt that timestamps: true gave it
ListedInvoice(id, userId, status, createdAt) ==
  [_id |-> id, userId |-> userId,
   customerId |-> IF userId = "u1" THEN "c1" ELSE "c2",
   invoiceNumber |-> StoredNumbers[id], status |-> status,
   items |-> WithAmounts(<<Item(RInt(1), RInt(1))>>),
   subtotal |-> RInt(1), taxRate |-> RInt(0), taxAmount |-> RInt(0),
   discountRate |-> RInt(0), discountAmount |-> RInt(0), total |-> RInt(1),
   issueDate |-> 0, dueDate |-> 0, paidDate |-> NoDate, createdAt |-> createdAt]

\* const {page = 1, limit = 10} = req.query, then parseInt
QueryInt(param, dflt) == IF param = Absent THEN dflt ELSE ParseInt(param)

\* .sort({createdAt: -1}): the orders of docs with createdAt descending;
\* MongoDB leaves the order of documents of equal createdAt open, query by
\* query
SortedDescending(docs) ==
  { order \in [1..Cardinality(docs) -> docs] :
      /\ \A i, j \in 1..Cardinality(docs) : i # j => order[i] # order[j]
      /\ \A i \in 1..(Cardinality(docs) - 1) :
           order[i].createdAt >= order[i + 1].createdAt }

\* .skip(skip).limit(limitNum)
SkipLimit(order, skip, limitNum) ==
  SubSeq(order, skip + 1,
         IF skip + limitNum < Len(order) THEN skip + limitNum ELSE Len(order))

\* Math.ceil(total / limitNum)
PagesOf(total, limitNum) == -((-total) \div limitNum)

\* res.json({invoices, pagination, summary}) for the sorted matches
PageResponse(order, pageNum, limitNum, summary) ==
  [status |-> 200,
   invoices |-> SkipLimit(order, (pageNum - 1) * limitNum, limitNum),
   pagination |-> [current |-> pageNum,
                   pages |-> PagesOf(Len(order), limitNum),
                   total |-> Len(order),
                   hasNext |-> pageNum < PagesOf(Len(order), limitNum),
                   hasPrev |-> pageNum > 1],
   summary |-> summary]

\* getAllInvoices for the query {page, limit, status}
GetPage(u, page, limit, status) ==
  {PageResponse(order, QueryInt(page, 1), QueryInt(limit, 10), Summary(invoices, u))
     : order \in SortedDescending(Listed(invoices, u, status))}

\* the stores listed: u1 holds up to MaxListed invoices, draft or sent, made
\* at instant 0 or 1 of createdAt; u2 holds one
InitList ==
  /\ now = 0
  /\ \E n \in 0..MaxListed :
       /\ \E status \in [1..n -> {"draft", "sent"}], createdAt \in [1..n -> 0..1] :
            invoices = {ListedInvoice(i, "u1", status[i], createdAt[i]) : i \in 1..n}
                         \cup {ListedInvoice(n + 1, "u2", "sent", 0)}
       /\ Registered([u \in Users |-> IF u = "u1" THEN n ELSE 1])
       /\ nextId = n + 2
  /\ \E status \in {NoString, "all", "draft"},
        limit \in {Absent} \cup {NumToStr(l) : l \in 1..MaxListed} :
       probe = Call("getAllInvoices",
                    [user |-> "u1", status |-> status, limit |-> limit])

\* GET /invoices for the page after the ones the caller has, the first one
\* without a page in the query; the caller asks for MaxListed + 1 pages
FetchPage ==
  /\ probe.fn = "getAllInvoices" /\ probe.op = "call"
  /\ \E response \in GetPage(probe.in.user,
                             IF probe.out = <<>> THEN Absent
                             ELSE NumToStr(Len(probe.out) + 1),
                             probe.in.limit, probe.in.status) :
       probe' = [probe EXCEPT !.out = Append(@, response),
                              !.op = IF Len(probe.out) = MaxListed
                                       THEN "return" ELSE "call"]
  /\ UNCHANGED <<now, invoices, users, customers, nextId, procs, issued>>

NextList == FetchPage

\* a caller walks through the pages of its invoices while nothing is written
SpecList == InitList /\ [][NextList]_vars

(***************************************************************************)
(* Invoice numbering.                                                      *)
(***************************************************************************)
InvoicesOf(u) == {d \in invoices : d.userId = u}

\* the month prefixes the clock of the model runs through
Prefixes == {InvoicePrefix(t) : t \in 0..MaxNow}

\* PREFIX-SEQ with the sequence n in 4 digits
NumberFor(prefix, n) == prefix \o <<"-">> \o PadStart(NumToStr(n), 4, "0")

\* the numbers inserted for user u under prefix, in the order of their inserts
IssuedUnder(u, prefix) ==
  SelectSeq(issued[u], LAMBDA number : StartsWith(number, prefix))

\* no invoice of user u has been deleted: every number inserted is still held
NothingDeleted(u) == Len(issued[u]) = Cardinality(InvoicesOf(u))

\* user u holds no invoice whose number starts with prefix
HoldsNone(u, prefix) ==
  \A d \in invoices :
    d.userId = u =>
      \/ Len(d.invoiceNumber) < Len(prefix)
      \/ \E i \in 1..Len(prefix) : d.invoiceNumber[i] # prefix[i]

\* C1: with one request at a time and no deletion, the numbers inserted for
\* one owner in one month are PREFIX-0001, PREFIX-0002, ... in that order
C1_SequentialNumbers ==
  \A u \in Users : NothingDeleted(u) =>
    \A prefix \in Prefixes :
      \A i \in 1..Len(IssuedUnder(u, prefix)) :
        IssuedUnder(u, prefix)[i] = NumberFor(prefix, i)

\* an owner holds three invoices made in one month, none deleted
C1_Witness ==
  \E u \in Users, prefix \in Prefixes :
    /\ NothingDeleted(u)
    /\ Len(IssuedUnder(u, prefix)) >= 3
    /\ \A number \in {issued[u][i] : i \in 1..Len(issued[u])} :
         \E d \in InvoicesOf(u) : d.invoiceNumber = number

\* the save of request r inserts its document
Inserts(r) == \E d \in invoices' : d._id = r.doc._id

\* C2: the first create of an owner who holds no invoice in the month is
\* assigned sequence 0001 and is persisted, whatever other owners hold
C2_FirstCreatePersistsPerOwner ==
  [][\A r \in InFlight :
       (/\ SaveNew(Sequential, r)
        /\ r.kind = "create"
        /\ \A prefix \in Prefixes :
             StartsWith(r.doc.invoiceNumber, prefix) => HoldsNone(r.user, prefix))
       => /\ \E prefix \in Prefixes : r.doc.invoiceNumber = NumberFor(prefix, 1)
          /\ Inserts(r)]_vars

\* the requests of user u in flight at pc
CountAt(u, pc) ==
  BagCardinality([r \in {q \in InFlight : q.user = u /\ q.pc = pc}
                    |-> CopiesIn(r, procs)])

\* C3: no two invoices of one owner share a number, and the owner's counter
\* counts exactly the inserts that succeeded: it equals the invoices held, less
\* the inserts and plus the deletes whose counter update is still to come
C3_UniquePerOwner ==
  /\ \A d, e \in invoices :
       d.userId = e.userId /\ d.invoiceNumber = e.invoiceNumber => d = e
  /\ \A u \in Users :
       users[u].invoiceCount =
         Cardinality(InvoicesOf(u)) - CountAt(u, "inc") + CountAt(u, "dec")

\* two requests of one owner proposed the same number: one is inserted and
\* counted, the other is about to save
C3_Witness ==
  \E r \in InFlight :
    /\ r.pc = "save"
    /\ users[r.user].invoiceCount >= 1
    /\ \E d \in InvoicesOf(r.user) : d.invoiceNumber = r.doc.invoiceNumber

\* C4: within one owner and month the numbers inserted only grow: none is
\* inserted twice, also after a deletion
C4_NeverReissued ==
  \A u \in Users, prefix \in Prefixes :
    \A i, j \in 1..Len(IssuedUnder(u, prefix)) :
      i < j => StrLess(IssuedUnder(u, prefix)[i], IssuedUnder(u, prefix)[j])

\* C5: a number generated while the owner holds no invoice under the prefix
\* of the month has sequence 0001, whatever the owner holds of other months
C5_FirstOfMonthIsOne ==
  \A r \in InFlight : r.pc = "save" =>
    \A prefix \in Prefixes :
      (StartsWith(r.doc.invoiceNumber, prefix) /\ HoldsNone(r.user, prefix))
      => r.doc.invoiceNumber = NumberFor(prefix, 1)

\* the owner reached sequence 0002 in an earlier month and starts the next
\* month at 0001
C5_Witness ==
  \E r \in InFlight :
    /\ r.pc = "save"
    /\ r.doc.invoiceNumber = NumberFor(InvoicePrefix(1), 1)
    /\ \E d \in InvoicesOf(r.user) : d.invoiceNumber = NumberFor(InvoicePrefix(0), 2)

\* C6: a request whose save is rejected for a number collision does not end:
\* it goes back to generate a number
C6_CollisionIsRetried ==
  [][\A r \in InFlight :
       (SaveNew(Concurrent, r) /\ SchemaValid(r.doc) /\ DuplicateKey(invoices, PreSave(r.doc, now)))
       => \E r2 \in BagToSet(procs') :
            r2.user = r.user /\ r2.kind = r.kind /\ r2.pc \in {"generate", "save"}]_vars

\* number is prefix, "-" and a non-empty run of decimal digits
WellFormed(number, prefix) ==
  /\ Len(number) > Len(prefix) + 1
  /\ \A i \in 1..Len(prefix) : number[i] = prefix[i]
  /\ number[Len(prefix) + 1] = "-"
  /\ \A i \in (Len(prefix) + 2)..Len(number) : IsDigit(number[i])

\* the greatest number user u holds under prefix lacks the PREFIX-SEQ shape
LatestMalformed(u, prefix) ==
  \E d \in InvoicesOf(u) :
    /\ StartsWith(d.invoiceNumber, prefix)
    /\ ~WellFormed(d.invoiceNumber, prefix)
    /\ \A e \in InvoicesOf(u) :
         StartsWith(e.invoiceNumber, prefix) =>
           ~StrLess(d.invoiceNumber, e.invoiceNumber)

\* C7: when the owner's latest number of the month lacks the PREFIX-SEQ
\* shape, generateInvoiceNumber fails: it returns no number
C7_MalformedLatestFails ==
  (/\ probe.op = "return"
   /\ probe.fn = "generateInvoiceNumber"
   /\ LatestMalformed(probe.in, InvoicePrefix(now)))
  => probe.out.settled = "rejected"

(***************************************************************************)
(* Totals.                                                                 *)
(***************************************************************************)
\* x to 2 decimals, a half going away from zero
RoundHalfAway2(x) ==
  LET y == RMul(x, RInt(100))
      q == Abs(y[1]) \div y[2]
      k == IF 2 * (Abs(y[1]) % y[2]) >= y[2] THEN q + 1 ELSE q
  IN Rat(IF y[1] < 0 THEN -k ELSE k, 100)

\* the raw values of the totals of a call's arguments
RawTotals(in) ==
  LET S == SumAmounts(in.items)
      tax == RDivInt(RMul(S, in.taxRate), 100)
      discount == RDivInt(RMul(S, in.discountRate), 100)
  IN [subtotal |-> S, taxAmount |-> tax, discountAmount |-> discount,
      total |-> RSub(RAdd(S, tax), discount)]

\* the example: 1 x 2500 and 10 x 150, taxRate 8.25, discountRate 5
ExampleTotalsArgs ==
  [items |-> <<Item(RInt(1), RInt(2500)), Item(RInt(10), RInt(150))>>,
   taxRate |-> <<33, 4>>, discountRate |-> RInt(5)]

C9_StoredTotalsRounded ==
  \A d \in invoices :
    LET totals == CalculateInvoiceTotals(d.items, d.taxRate, d.discountRate)
    IN /\ d.subtotal = totals.subtotal
       /\ d.taxAmount = totals.taxAmount
       /\ d.discountAmount = totals.discountAmount
       /\ d.total = totals.total

(***************************************************************************)
(* Status rules.                                                           *)
(***************************************************************************)
\* C10: a document saved with a paidDate is stored with status paid and its
\* paidDate, whatever status it carried into the save and whenever it was due
C10_PaidDateForcesPaid ==
  (probe.op = "return" /\ probe.fn = "save" /\ probe.in.paidDate # NoDate) =>
    /\ probe.out.status = "paid"
    /\ probe.out.paidDate = probe.in.paidDate

\* a sent invoice past its dueDate was saved with a paidDate and came out paid
C10_Witness ==
  /\ probe.op = "return" /\ probe.fn = "save"
  /\ probe.in.paidDate # NoDate
  /\ probe.in.status = "sent"
  /\ probe.in.dueDate < now
  /\ probe.out.status = "paid"

\* C11: a document saved with status paid and no paidDate is stored with a
\* status other than paid
C11_NoPaidDateRemovesPaid ==
  (/\ probe.op = "return" /\ probe.fn = "save"
   /\ probe.in.paidDate = NoDate /\ probe.in.status = "paid")
  => probe.out.status # "paid"

\* C12: a document saved with status sent, no paidDate and a dueDate before
\* the instant of the save is stored overdue; the save makes no other document
\* overdue, and a document without paidDate that is not sent, or not yet past
\* its dueDate, keeps its status
C12_OverdueRule ==
  (probe.op = "return" /\ probe.fn = "save") =>
    /\ (/\ probe.in.status = "sent" /\ probe.in.paidDate = NoDate
        /\ probe.in.dueDate < now)
       => probe.out.status = "overdue"
    /\ (/\ probe.in.paidDate = NoDate
        /\ \/ probe.in.status \in {"draft", "cancelled", "overdue"}
           \/ ~(probe.in.dueDate < now))
       => probe.out.status = probe.in.status
    /\ (probe.out.status = "overdue" /\ probe.in.status # "overdue")
       => (/\ probe.in.status = "sent" /\ probe.in.paidDate = NoDate
           /\ probe.in.dueDate < now)

\* a sent invoice without paidDate was saved after its dueDate and came out
\* overdue
C12_Witness ==
  /\ probe.op = "return" /\ probe.fn = "save"
  /\ probe.in.status = "sent" /\ probe.in.paidDate = NoDate
  /\ probe.in.dueDate < now
  /\ probe.out.status = "overdue"

\* the stored invoice with the given id
Stored(invs, id) == CHOOSE d \in invs : d._id = id

\* this step is updateInvoice answering 200
UpdateSucceeds ==
  /\ now' = now
  /\ probe'.fn = "updateInvoice" /\ probe'.op = "return"
  /\ probe'.out.status = 200

\* this step is updateInvoice answering a body that holds a status and
\* nothing else, sent by the owner of the stored invoice it addresses
StatusOnlyUpdate ==
  /\ now' = now
  /\ probe'.fn = "updateInvoice" /\ probe'.op = "return"
  /\ probe'.in.body \in
       {[NoUpdate EXCEPT !.status = st] : st \in Statuses}
         \cup {[NoUpdate64 EXCEPT !.status = st] : st \in Statuses}
  /\ \E d \in invoices : d._id = probe'.in.id /\ d.userId = probe'.in.user

\* C13: an update to status paid stamps paidDate with the instant of the
\* update when the invoice has none and keeps the paidDate it has, and the
\* invoice is stored paid; an update to any other status stores the invoice
\* without paidDate and with a status other than paid; and an update of the
\* status alone succeeds from every status
C13_StatusUpdateSetsPaidDate ==
  [][/\ StatusOnlyUpdate => probe'.out.status = 200
     /\ (UpdateSucceeds /\ probe'.in.body.status # NoString) =>
          /\ probe'.in.body.status = "paid" =>
               /\ Stored(invoices', probe'.in.id).status = "paid"
               /\ Stored(invoices', probe'.in.id).paidDate =
                    IF Stored(invoices, probe'.in.id).paidDate = NoDate
                      THEN now
                    ELSE Stored(invoices, probe'.in.id).paidDate
          /\ probe'.in.body.status # "paid" =>
               /\ Stored(invoices', probe'.in.id).status # "paid"
               /\ Stored(invoices', probe'.in.id).paidDate = NoDate]_vars

\* an update to status paid was answered 200 and the invoice is stored paid
\* with the paidDate of that instant, which no invoice had at the start
C13_Witness ==
  /\ probe.fn = "updateInvoice" /\ probe.op = "return"
  /\ probe.out.status = 200
  /\ probe.in.body.status = "paid"
  /\ now > 0
  /\ Stored(invoices, probe.in.id).status = "paid"
  /\ Stored(invoices, probe.in.id).paidDate = now

\* the last element of a sequence
Last(seq) == seq[Len(seq)]

\* C14: the document createInvoice inserts is draft, has no paidDate, has the
\* issueDate of the instant the handler built it (which is not after the
\* insert), and holds the items and rates of the body with the totals
\* computed from them, whatever status, paidDate and total the body holds and
\* whether or not its dueDate has passed
C14_CreatedAsDraft ==
  [][\A r \in InFlight :
       /\ (r.kind = "create" /\ r.pc = "generate") =>
            \A q \in BagToSet(procs') : q.pc = "save" => q.doc.issueDate = now
       /\ (r.kind = "create" /\ r.pc = "save") =>
            \A d \in invoices' \ invoices :
               /\ d.status = "draft"
               /\ d.paidDate = NoDate
               /\ d.issueDate = r.doc.issueDate /\ d.issueDate <= now
               /\ d.items = WithAmounts(probe.in.body.items)
               /\ d.taxRate = OrDefault(probe.in.body.taxRate, RInt(0))
               /\ d.discountRate = OrDefault(probe.in.body.discountRate, RInt(0))
               /\ d.dueDate = probe.in.body.dueDate
               /\ d.total = PreSaveTotals(d).total
               /\ d.total # probe.in.body.total]_vars

\* a create whose body holds status paid, a paidDate and a total, and whose
\* dueDate had passed, was answered 201, and the invoice it inserted is
\* stored draft without paidDate
C14_Witness ==
  /\ probe.fn = "createInvoice" /\ probe.op = "return"
  /\ probe.out.status = 201
  /\ probe.in.body.status = "paid" /\ probe.in.body.paidDate # NoDate
  /\ probe.in.body.total # NoNumber
  /\ \E d \in invoices :
       /\ d.userId = probe.in.user
       /\ d.invoiceNumber = Last(issued[probe.in.user])
       /\ d.dueDate < d.issueDate
       /\ d.status = "draft" /\ d.paidDate = NoDate

\* C15: the document a duplicate inserts has a number other than the
\* original's, is draft without paidDate, and has the customer, the items and
\* the rates of the original; and while the duplicate runs every stored
\* invoice, the original among them, stays as it is
C15_DuplicateIsDraftCopy ==
  [][\A r \in InFlight :
       r.kind = "duplicate" =>
         /\ invoices \subseteq invoices'
         /\ r.pc = "save" =>
              \A d \in invoices' \ invoices :
                 /\ d._id # probe.in.id
                 /\ d.invoiceNumber # Stored(invoices, probe.in.id).invoiceNumber
                 /\ d.status = "draft" /\ d.paidDate = NoDate
                 /\ d.userId = Stored(invoices, probe.in.id).userId
                 /\ d.customerId = Stored(invoices, probe.in.id).customerId
                 /\ d.items = Stored(invoices, probe.in.id).items
                 /\ d.taxRate = Stored(invoices, probe.in.id).taxRate
                 /\ d.discountRate = Stored(invoices, probe.in.id).discountRate]_vars

\* the duplicate of a paid invoice was answered 201: the original is still
\* paid with its paidDate, the copy is draft under another number
C15_Witness ==
  /\ probe.fn = "duplicateInvoice" /\ probe.op = "return"
  /\ probe.out.status = 201
  /\ \E o \in invoices, d \in invoices :
       /\ o._id = probe.in.id /\ o.userId = probe.in.user
       /\ o.status = "paid" /\ o.paidDate # NoDate
       /\ d._id # o._id /\ d.userId = o.userId
       /\ d.invoiceNumber = Last(issued[probe.in.user])
       /\ d.invoiceNumber # o.invoiceNumber
       /\ d.status = "draft" /\ d.paidDate = NoDate
       /\ d.items = o.items /\ d.customerId = o.customerId

\* this step sends the response of handler fn with one of the codes
Answers(fns, codes) ==
  /\ procs' = EmptyBag /\ now' = now
  /\ probe'.op = "return"
  /\ probe'.fn \in fns /\ probe'.out.status \in codes

\* the count of user u changes by k and no other count changes
CountMoves(u, k) ==
  /\ users'[u].invoiceCount = users[u].invoiceCount + k
  /\ \A v \in Users \ {u} : users'[v] = users[v]

\* C16: when a request has completed, the invoiceCount of every owner is the
\* number of invoices the owner holds; a create or duplicate answered 201
\* adds exactly 1 to the caller's count, a delete answered 200 takes exactly
\* 1 from it, a request answered 400, 401, 403, 404 or 500 and every other
\* step leave all counts as they are, and no count is ever negative
C16_CountIsHeldInvoices ==
  [][/\ procs' = EmptyBag =>
          \A u \in Users :
             users'[u].invoiceCount = Cardinality({d \in invoices' : d.userId = u})
     /\ \A u \in Users : users'[u].invoiceCount >= 0
     /\ IF Answers({"createInvoice", "duplicateInvoice"}, {201})
          THEN CountMoves(probe'.in.user, 1)
        ELSE IF Answers({"deleteInvoice"}, {200})
          THEN CountMoves(probe'.in.user, -1)
        ELSE users' = users]_vars

\* an owner's delete was answered 200 after a create or duplicate of the same
\* owner had inserted, and the count is the number of invoices held
C16_Witness ==
  /\ probe.fn = "deleteInvoice" /\ probe.op = "return"
  /\ probe.out.status = 200
  /\ procs = EmptyBag
  /\ Len(issued[probe.in.user]) > 0
  /\ users[probe.in.user].invoiceCount = Cardinality(InvoicesOf(probe.in.user))

\* the routes that address one invoice by its id
IdRoutes ==
  {"getInvoiceById", "updateInvoice", "deleteInvoice", "duplicateInvoice",
   "generateInvoicePDF"}

\* this step handles a request of an authenticated user to a route of
\* IdRoutes whose id is that of a stored invoice of another user
ForeignRequest ==
  /\ now' = now
  /\ probe'.fn \in IdRoutes
  /\ probe'.in.user \in Users
  /\ \E d \in invoices : d._id = probe'.in.id /\ d.userId # probe'.in.user

\* what getAllInvoices, getInvoiceById and the PDF route answer holds only
\* invoices of the caller: the list is the caller's stored invoices of the
\* status asked for, the summary counts the caller's invoices
ReadsOwnOnly ==
  /\ (now' = now /\ probe'.fn = "getAllInvoices" /\ probe'.in.user \in Users) =>
       /\ \A d \in probe'.out.invoices :
            d.userId = probe'.in.user /\ d \in invoices
       /\ \A d \in invoices :
            (/\ d.userId = probe'.in.user
             /\ probe'.in.body.status \in {NoString, d.status})
            => d \in probe'.out.invoices
       /\ probe'.out.summary.total =
            Cardinality({d \in invoices : d.userId = probe'.in.user})
       /\ \A st \in Statuses :
            probe'.out.summary.count[st] =
              Cardinality({d \in invoices :
                             d.userId = probe'.in.user /\ d.status = st})
  /\ (/\ now' = now /\ probe'.fn \in {"getInvoiceById", "generateInvoicePDF"}
      /\ probe'.out.status = 200)
     => (/\ probe'.out.invoice.userId = probe'.in.user
         /\ probe'.out.invoice._id = probe'.in.id
         /\ probe'.out.invoice \in invoices)

\* C17 as stated: every request to an invoice of another user is answered
\* 404 and changes no invoice and no counter, and the reads answer only the
\* caller's invoices
C17_ForeignAlways404 ==
  [][/\ ForeignRequest =>
          /\ probe'.op = "return" /\ probe'.out.status = 404
          /\ invoices' = invoices /\ users' = users
     /\ ReadsOwnOnly]_vars

\* C17: a request to an invoice of another user is answered at once, with
\* 403 when it is a duplicate and the caller is at the plan limit, with 400
\* when it is an update whose body is invalid, and with 404 otherwise; it
\* changes no invoice and no counter and draws no id; and the reads answer
\* only the caller's invoices
C17_ForeignNeverServed ==
  [][/\ ForeignRequest =>
          /\ probe'.op = "return"
          /\ probe'.out.status =
               IF /\ probe'.fn = "duplicateInvoice"
                  /\ users[probe'.in.user].plan = "free"
                  /\ users[probe'.in.user].invoiceCount
                       >= users[probe'.in.user].maxInvoices
                 THEN 403
               ELSE IF /\ probe'.fn = "updateInvoice"
                       /\ ~ValidUpdateBody(probe'.in.body)
                 THEN 400
               ELSE 404
          /\ invoices' = invoices /\ users' = users
          /\ nextId' = nextId /\ procs' = procs
     /\ ReadsOwnOnly]_vars

\* a request to each route of IdRoutes was answered 404 because the invoice
\* it addressed is another user's; here the delete, the invoice still stored
C17_Witness ==
  /\ probe.fn = "deleteInvoice" /\ probe.op = "return"
  /\ probe.out.status = 404
  /\ probe.in.user \in Users
  /\ \E d \in invoices : d._id = probe.in.id /\ d.userId # probe.in.user

\* this step takes up a create or a duplicate of an authenticated user
CreateOrDuplicateArrives ==
  /\ procs = EmptyBag /\ now' = now
  /\ probe'.fn \in {"createInvoice", "duplicateInvoice"}
  /\ probe'.in.user \in Users

NotACustomerOf(u, customerId) ==
  ~\E c \in customers : c._id = customerId /\ c.userId = u

\* this step handles a create of an authenticated user that names a customer
\* the user does not have
CreateForUnknownCustomer ==
  /\ procs = EmptyBag /\ now' = now
  /\ probe'.fn = "createInvoice" /\ probe'.in.user \in Users
  /\ NotACustomerOf(probe'.in.user, probe'.in.customerId)

\* this step handles an update of a stored invoice by its owner that names a
\* customer other than the invoice's which the owner does not have
UpdateToUnknownCustomer ==
  /\ now' = now
  /\ probe'.fn = "updateInvoice" /\ probe'.in.user \in Users
  /\ probe'.in.customerId # NoString
  /\ NotACustomerOf(probe'.in.user, probe'.in.customerId)
  /\ \E d \in invoices : /\ d._id = probe'.in.id /\ d.userId = probe'.in.user
                         /\ d.customerId # probe'.in.customerId

\* the step stores and changes no invoice, changes no count, draws no id and
\* leaves no request in flight
NothingHappens ==
  /\ invoices' = invoices /\ users' = users /\ nextId' = nextId
  /\ issued' = issued /\ procs' = procs

\* C19 as stated: a create for a customer the caller does not have, and an
\* update that changes the customer to one, are answered 404 and change
\* nothing
C19_UnknownCustomerAlways404 ==
  [][(CreateForUnknownCustomer \/ UpdateToUnknownCustomer) =>
       /\ probe'.op = "return" /\ probe'.out.status = 404
       /\ NothingHappens]_vars

\* C19: a create for a customer the caller does not have is answered 403
\* when the caller is at the plan limit, else 400 when its body is invalid,
\* else 404; an update that changes the customer to one the caller does not
\* have is answered 400 when its body is invalid, else 404; all of them
\* change nothing
C19_UnknownCustomerRefused ==
  [][/\ CreateForUnknownCustomer =>
          /\ probe'.op = "return"
          /\ probe'.out.status =
               IF /\ users[probe'.in.user].plan = "free"
                  /\ users[probe'.in.user].invoiceCount
                       >= users[probe'.in.user].maxInvoices
                 THEN 403
               ELSE IF ~ValidCreateBody(probe'.in.body) THEN 400
               ELSE 404
          /\ NothingHappens
     /\ UpdateToUnknownCustomer =>
          /\ probe'.op = "return"
          /\ probe'.out.status = IF ~ValidUpdateBody(probe'.in.body) THEN 400 ELSE 404
          /\ NothingHappens]_vars

\* an update that names the customer of another user was answered 404, and
\* the invoice still has its own customer
C19_Witness ==
  /\ probe.fn = "updateInvoice" /\ probe.op = "return"
  /\ probe.out.status = 404
  /\ \E c \in customers : c._id = probe.in.customerId /\ c.userId # probe.in.user
  /\ \E d \in invoices : /\ d._id = probe.in.id /\ d.userId = probe.in.user
                         /\ d.customerId # probe.in.customerId

\* the input constraints: an item list that is empty or holds a quantity
\* <= 0 or a rate < 0; a rate that is given and outside [0, 100]; a dueDate
\* that is no date; a status that is given and is none of the five
BadItems(items) ==
  \/ Len(items) = 0
  \/ \E i \in 1..Len(items) :
        RLeq(items[i].quantity, RInt(0)) \/ RLess(items[i].rate, RInt(0))

BadRate(x) == x # NoNumber /\ (RLess(x, RInt(0)) \/ RLess(RInt(100), x))

BadStatus(st) == st # NoString /\ st \notin Statuses

\* this step handles a create (fn createInvoice) or an update (fn
\* updateInvoice) of an authenticated user whose body violates a constraint
\* on a field the route validates
InvalidBodyArrives(fn) ==
  /\ procs = EmptyBag /\ now' = now
  /\ probe'.fn = fn /\ probe'.in.user \in Users
  /\ \/ probe'.in.body.items # NoItems /\ BadItems(probe'.in.body.items)
     \/ BadRate(probe'.in.body.taxRate) \/ BadRate(probe'.in.body.discountRate)
     \/ probe'.in.body.dueDate = InvalidDate
     \/ fn = "updateInvoice" /\ BadStatus(probe'.in.body.status)

\* C20 as stated: a create or update with an invalid body is answered 400
\* and changes nothing
C20_InvalidBodyAlways400 ==
  [][(InvalidBodyArrives("createInvoice") \/ InvalidBodyArrives("updateInvoice")) =>
       /\ probe'.op = "return" /\ probe'.out.status = 400
       /\ NothingHappens]_vars

\* C20: an update with an invalid body is answered 400; a create with an
\* invalid body is answered 403 when the caller is a free-plan owner at the
\* limit and 400 otherwise; both are answered in their first step, before
\* any lookup, totals or number, and change nothing
C20_InvalidBodyRefused ==
  [][/\ InvalidBodyArrives("updateInvoice") =>
          /\ probe'.op = "return" /\ probe'.out.status = 400
          /\ NothingHappens
     /\ InvalidBodyArrives("createInvoice") =>
          /\ probe'.op = "return"
          /\ probe'.out.status =
               IF /\ users[probe'.in.user].plan = "free"
                  /\ users[probe'.in.user].invoiceCount
                       >= users[probe'.in.user].maxInvoices
                 THEN 403
               ELSE 400
          /\ NothingHappens]_vars

\* a create with an item of quantity 0 for the caller's own customer was
\* answered 400
C20_Witness ==
  /\ probe.fn = "createInvoice" /\ probe.op = "return"
  /\ probe.out.status = 400
  /\ \E c \in customers : c._id = probe.in.customerId /\ c.userId = probe.in.user
  /\ Len(probe.in.body.items) = 1
  /\ probe.in.body.items[1].quantity = RInt(0)

\* C21: every item of every stored invoice has amount = quantity * rate
C21_AmountIsQuantityTimesRate ==
  \A d \in invoices :
    \A i \in 1..Len(d.items) :
      d.items[i].amount = RMul(d.items[i].quantity, d.items[i].rate)

\* the items the bodies of POST and PUT hold come with an amount other than
\* quantity * rate; an invoice made from a POST body and one updated with the
\* items of a PUT body are stored with the products
C21_Witness ==
  /\ \A b \in CreateBodies \cup UpdateBodies :
       b.items[1].amount # RMul(b.items[1].quantity, b.items[1].rate)
  /\ \E b \in CreateBodies, c \in UpdateBodies, d \in invoices, e \in invoices :
       /\ d._id # e._id
       /\ d.items = WithAmounts(b.items)
       /\ e.items = WithAmounts(c.items)
       /\ d.items[1].amount # RInt(0) /\ e.items[1].amount # RInt(0)


(***************************************************************************)
(* Totals, references and frames of the stored invoices.                   *)
(***************************************************************************)
\* C22: every stored invoice has subtotal, taxAmount, discountAmount and
\* total at or above 0
C22_TotalsNotNegative ==
  \A d \in invoices :
    /\ AtMost(Num(0), d.subtotal) /\ AtMost(Num(0), d.taxAmount)
    /\ AtMost(Num(0), d.discountAmount) /\ AtMost(Num(0), d.total)

\* the invoices of the caller that match the status filter of the walk
Matching ==
  {d \in invoices : /\ d.userId = probe.in.user
                    /\ probe.in.status \in {NoString, "all"}
                         \/ d.status = probe.in.status}

\* the limit of the walk
LimitAsked == IF probe.in.limit = Absent THEN 10 ELSE DigitsValue(probe.in.limit)

\* the least number of pages of LimitAsked invoices that hold all of Matching
PagesNeeded ==
  CHOOSE k \in 0..Cardinality(Matching) :
    /\ k * LimitAsked >= Cardinality(Matching)
    /\ k = 0 \/ (k - 1) * LimitAsked < Cardinality(Matching)

\* the places of invoice d in pages 1..PagesNeeded of the walk
PlacesOf(d) ==
  {pos \in (1..PagesNeeded) \X (1..LimitAsked) :
     /\ pos[1] <= Len(probe.out)
     /\ pos[2] <= Len(probe.out[pos[1]].invoices)
     /\ probe.out[pos[1]].invoices[pos[2]] = d}

\* each response of the walk holds at most LimitAsked invoices, the count of
\* Matching as total, PagesNeeded as pages, and hasNext and hasPrev as the
\* page stands to them
C23_EachPageRight ==
  probe.fn = "getAllInvoices" =>
    \A p \in 1..Len(probe.out) :
      /\ Len(probe.out[p].invoices) <= LimitAsked
      /\ probe.out[p].pagination.total = Cardinality(Matching)
      /\ probe.out[p].pagination.pages = PagesNeeded
      /\ probe.out[p].pagination.hasNext <=> p < PagesNeeded
      /\ probe.out[p].pagination.hasPrev <=> p > 1

\* C23: page p of limit L holds at most L invoices, total is the number of
\* the caller's invoices that match the filter, pages is ceil(total / L),
\* hasNext is p < pages, hasPrev is p > 1, and pages 1..pages of a walk
\* without writes hold every matching invoice exactly once
C23_PagesPartitionMatches ==
  /\ C23_EachPageRight
  /\ (probe.fn = "getAllInvoices" /\ probe.op = "return") =>
       \A d \in Matching : Cardinality(PlacesOf(d)) = 1

C25_HeldWithinLimit ==
  \A u \in Users :
    users[u].plan = "free" =>
      /\ Cardinality(InvoicesOf(u)) <= users[u].maxInvoices
      /\ users[u].invoiceCount <= users[u].maxInvoices

\* the sum of quantity * rate over the first n items
RECURSIVE SumOfLines(_, _)
SumOfLines(items, n) ==
  IF n = 0 THEN RInt(0)
  ELSE RAdd(SumOfLines(items, n - 1), RMul(items[n].quantity, items[n].rate))

\* the totals of d are those its items, taxRate and discountRate give
TotalsFollow(d, sum) ==
  /\ d.subtotal = sum
  /\ d.taxAmount = RDivInt(RMul(sum, d.taxRate), 100)
  /\ d.discountAmount = RDivInt(RMul(sum, d.discountRate), 100)
  /\ d.total = RSub(RAdd(sum, RDivInt(RMul(sum, d.taxRate), 100)),
                    RDivInt(RMul(sum, d.discountRate), 100))

\* C26: once updateInvoice answered 200, the invoice stored has the subtotal,
\* taxAmount, discountAmount and total its stored items and its stored
\* taxRate and discountRate give
C26_TotalsFollowStoredRates ==
  (probe.fn = "updateInvoice" /\ probe.op = "return" /\ probe.out.status = 200) =>
    TotalsFollow(Stored(invoices, probe.in.id),
                 SumOfLines(Stored(invoices, probe.in.id).items,
                            Len(Stored(invoices, probe.in.id).items)))

\* a PUT with new items and a taxRate of 0 was answered 200 for an invoice
\* that carries a discount: it is stored without tax, its total below its
\* subtotal
C26_Witness ==
  /\ probe.fn = "updateInvoice" /\ probe.op = "return" /\ probe.out.status = 200
  /\ probe.in.body.items # NoItems /\ probe.in.body.taxRate = RInt(0)
  /\ Stored(invoices, probe.in.id).items = WithAmounts(probe.in.body.items)
  /\ Stored(invoices, probe.in.id).taxAmount = RInt(0)
  /\ Stored(invoices, probe.in.id).discountRate = RInt(5)
  /\ RLess(Stored(invoices, probe.in.id).total, Stored(invoices, probe.in.id).subtotal)

\* C27: the customerId of every stored invoice is the _id of a stored
\* customer of the user the invoice belongs to
C27_CustomerOfInvoiceExists ==
  \A d \in invoices :
    \E c \in customers : c._id = d.customerId /\ c.userId = d.userId

\* C28: no step changes the userId of a customer, and a customer a step adds
\* has the userId of the user whose request the step handles
C28_OwnerNeverChanges ==
  [][/\ \A c \in customers, d \in customers' :
          c._id = d._id => d.userId = c.userId
     /\ \A d \in customers' :
          (\A c \in customers : c._id # d._id) => d.userId = probe'.in.user]_vars

\* what updateInvoice may do to an invoice that was stored as old and is
\* stored as new, for the body b of the request
WithinFrame(old, new, b) ==
  /\ new.invoiceNumber = old.invoiceNumber
  /\ new.userId = old.userId
  /\ new.issueDate = old.issueDate
  /\ b.customerId = NoString => new.customerId = old.customerId
  /\ b.dueDate = NoDate => new.dueDate = old.dueDate
  /\ b.currency = NoString => new.currency = old.currency
  /\ b.notes = NoString => new.notes = old.notes
  /\ b.terms = NoString => new.terms = old.terms
  /\ b.items = NoItems => new.items = old.items
  /\ b.taxRate = NoNumber => new.taxRate = old.taxRate
  /\ b.discountRate = NoNumber => new.discountRate = old.discountRate
  /\ b.status = NoString => new.paidDate = old.paidDate
  /\ b.status = NoString =>
       \/ new.status = old.status
       \/ old.status = "sent" /\ new.status = "overdue" /\ new.dueDate < now

C30_NumberIsFresh ==
  (probe.fn = "generateInvoiceNumber" /\ probe.op = "return")
    => \A d \in invoices :
         d.userId = probe.in => d.invoiceNumber # probe.out.value
====
